---- MODULE Spec2Model ----
(***************************************************************************)
(* A model of the stompclient clients (src/stompclient).                   *)
(*                                                                         *)
(* One client object is constructed, either a QueueingDuplexClient         *)
(* (duplex.py) or a PublishClient (simplex.py); caller threads invoke its  *)
(* public methods, one listener thread runs listener_forever, and the peer *)
(* (broker) answers what is written to the Connection.  Every access to a  *)
(* shared object (an Event, a Queue, the subscription set, the Connection) *)
(* is one step of the thread that makes it, so the threads interleave as   *)
(* the Python threads do.                                                  *)
(*                                                                         *)
(* The byte stream is modelled at the granularity of whole frames: a read  *)
(* returns one or more frames, and the frame buffer yields them in order.  *)
(***************************************************************************)
EXTENDS Integers, Sequences, FiniteSets, TLC

\* ---------------------------------------------------------------- bounds
Callers == {"t1", "t2"}
FirstCaller == "t1"
Destinations == {"a", "b"}
ReceiptIds == {"r1", "r2"}
\* The runs explored have either two concurrent caller threads or a single
\* one; with a single caller thread more happens in a run.
MaxCalls == 1        \* public method calls made by each of two threads
MaxSeqCalls == 3     \* public method calls made by a single caller thread
MaxPush == 0         \* frames the peer sends without being asked
MaxSeqPush == 2      \* the same, when there is a single caller thread
MaxStarts == 1       \* invocations of listener_forever
MaxSeqStarts == 1    \* the same, when there is a single caller thread
None == "None"
MaxRead == 2         \* frames one read can return


\* ---------------------------------------------------------------- frames
\* A frame: its command and the headers the clients look at.
Frame(cmd, dest, rcpt, rid) ==
    [command |-> cmd, destination |-> dest, receipt |-> rcpt, receipt_id |-> rid]

ConnectFrame == Frame("CONNECT", None, None, None)
DisconnectFrame == Frame("DISCONNECT", None, None, None)
SubscribeFrame(d) == Frame("SUBSCRIBE", d, None, None)
UnsubscribeFrame(d) == Frame("UNSUBSCRIBE", d, None, None)
SendFrame(d) == Frame("SEND", d, None, None)

NoFrame == Frame(None, None, None, None)

\* Frames an application hands to send_frame: a SEND with or without a
\* receipt header.
AppFrames ==
    { [SendFrame("a") EXCEPT !.receipt = r] : r \in ReceiptIds \cup {None} }

\* Frames the peer pushes on its own: MESSAGE, ERROR, a RECEIPT nobody
\* asked for, and a command the read loop has no queue for.
UnsolicitedId == "r2"
PushFrames ==
    {Frame("MESSAGE", d, None, None) : d \in Destinations}
    \cup {Frame("ERROR", None, None, None), Frame("SEND", None, None, None),
          Frame("RECEIPT", None, None, UnsolicitedId)}

VARIABLES
    role,                     \* "duplex" or "simplex": the class constructed
    threads,                  \* the caller threads the application runs
    connected_queue, message_queue, receipt_queue, error_queue,
    subscribed_destinations,
    listening_event, shutdown_event,
    buffer,                   \* FrameBuffer: frames appended, not yet yielded
    sock,                     \* Connection._sock is not None
    wire,                     \* frames in flight from the peer to the client
    lpc, lerr, starts,        \* the listener thread
    pc, op, frame, subcpy, sendlog, disccalls, written, ret, err,
    calls,
    overlapped,               \* history: another thread added a subscription
                              \* since this thread called disconnect()
    pushes

\* The frame codec on its own: one FrameBuffer fed from a byte stream, and
\* Frame.pack / Frame.unpack applied to frames and byte strings.
VARIABLES
    fraw,                     \* bytes on the stream that no pack() produced
    fframes,                  \* Frame objects the sender has still to pack
    fstream,                  \* bytes sent, not yet appended to the buffer
    fall,                     \* history: every byte put on the stream
    fbuffer,                  \* FrameBuffer.buffer
    fout,                     \* frames the buffer has yielded, oldest first
    fdrained,                 \* the last extract_message returned None
    ferr,                     \* the exception an extraction raised, or None
    fpacked,                  \* the byte string handed to Frame.unpack
    fdecoded,                 \* what Frame.unpack made of it
    fequal                    \* what == made of the first two frames

fvars == <<fraw, fframes, fstream, fall, fbuffer, fout, fdrained, ferr, fpacked,
           fdecoded, fequal>>

\* The construction of a client, the socket-polling Frame and the
\* reconnection of a client, each on its own.
VARIABLES
    pool,                     \* a client under construction and its pool:
                              \*   arg: the connection_pool argument, a class
                              \*     or None
                              \*   connection_pool: the class of
                              \*     self.connection_pool, None if unset
                              \*   constructed: "no", "ok" or "raised", how
                              \*     __init__ ended
                              \*   connections: per thread, the Connection
                              \*     the pool's dict holds for the client's
                              \*     key as that thread sees it; 0 for none
                              \*   held: per thread, the Connection
                              \*     self.connection last gave it; 0 for none
    poll,                     \* a socket-polling Frame:
                              \*   sock: frames that arrived on the socket,
                              \*     unread
                              \*   iqueue, rqueue: Frame.iqueue._queue and
                              \*     Frame.rqueue
                              \*   call: the call in progress and its nb
                              \*   messages, replies: history, the frames
                              \*     get_message / get_reply returned
                              \*   arrived, calls: frames that have arrived,
                              \*     calls made
    fepoch                    \* times the client owning the FrameBuffer has
                              \* disconnected and connected again

svars == <<pool, poll, fepoch>>

lvars == <<lpc, lerr, starts>>
queues == <<connected_queue, message_queue, receipt_queue, error_queue>>
conn == <<sock, wire>>
cvars == <<pc, op, frame, subcpy, sendlog, disccalls, written, ret, err, calls,
           overlapped>>
vars == <<role, threads, queues, subscribed_destinations, listening_event,
          shutdown_event, buffer, conn, lvars, cvars, pushes, fvars, svars>>

MaxPoolCallers == 3  \* caller threads that use one client's connection
ListenerThread == 0
PoolThreads == {ListenerThread} \cup (1..MaxPoolCallers)

NoCall == [method |-> None, nb |-> FALSE]

\* A client not yet constructed, given the pool argument arg.
PoolFresh(arg) ==
    [arg |-> arg, connection_pool |-> None, constructed |-> "no",
     connections |-> [t \in PoolThreads |-> 0],
     held |-> [t \in PoolThreads |-> 0]]

\* A polling Frame as its constructor leaves it, with nothing on its socket.
PollFresh ==
    [sock |-> <<>>, iqueue |-> <<>>, rqueue |-> <<>>, call |-> NoCall,
     messages |-> <<>>, replies |-> <<>>, arrived |-> 0, calls |-> 0]

\* No client is under construction, no polling Frame is in use and the
\* client has not connected a second time.
SideIdle ==
    /\ pool = PoolFresh(None)
    /\ poll = PollFresh
    /\ fepoch = 0

\* No codec object is in use.
CodecIdle ==
    /\ fraw = <<>>
    /\ fframes = <<>>
    /\ fstream = <<>>
    /\ fall = <<>>
    /\ fbuffer = <<>>
    /\ fout = <<>>
    /\ fdrained = TRUE
    /\ ferr = None
    /\ fpacked = <<>>
    /\ fdecoded = [status |-> "none"]
    /\ fequal = None

\* The client object as its constructor leaves it.
ClientFresh ==
    /\ connected_queue = <<>>
    /\ message_queue = <<>>
    /\ receipt_queue = <<>>
    /\ error_queue = <<>>
    /\ subscribed_destinations = {}
    /\ listening_event = FALSE
    /\ shutdown_event = FALSE
    /\ buffer = <<>>
    /\ sock = FALSE
    /\ wire = <<>>
    /\ lpc = "idle"
    /\ lerr = None
    /\ starts = 0
    /\ pc = [c \in Callers |-> "idle"]
    /\ op = [c \in Callers |-> None]
    /\ frame = [c \in Callers |-> NoFrame]
    /\ subcpy = [c \in Callers |-> {}]
    /\ sendlog = [c \in Callers |-> <<>>]
    /\ disccalls = [c \in Callers |-> 0]
    /\ written = [c \in Callers |-> <<>>]
    /\ ret = [c \in Callers |-> NoFrame]
    /\ err = [c \in Callers |-> None]
    /\ calls = [c \in Callers |-> 0]
    /\ overlapped = [c \in Callers |-> FALSE]
    /\ pushes = 0

Init ==
    /\ role \in {"duplex", "simplex"}
    /\ threads \in {{FirstCaller}, Callers}
    /\ ClientFresh
    /\ CodecIdle
    /\ SideIdle


Min(a, b) == IF a < b THEN a ELSE b

\* --------------------------------------------------------------- budgets
Single == threads = {FirstCaller}
CallBudget == IF Single THEN MaxSeqCalls ELSE MaxCalls
PushBudget == IF Single THEN MaxSeqPush ELSE MaxPush
StartBudget == IF Single THEN MaxSeqStarts ELSE MaxStarts

\* ------------------------------------------------------------ Connection
\* Connection.disconnect: a no-op without a socket, else the socket is
\* closed; what was in flight on it in either direction is lost.
ConnDisconnect ==
    /\ sock' = FALSE
    /\ wire' = <<>>

\* The outcomes of one Connection.send(command) call, as the pair
\* <<result, socket open afterwards>>:
\*   connect() fails                    -> a non-connection error, no socket
\*   sendall succeeds                   -> the frame reaches the peer
\*   sendall fails with EPIPE           -> disconnect(), ConnectionError
\*   sendall fails with another errno   -> ConnectionError, socket kept
\*   sendall rejects its argument       -> a non-connection error
\* The last case is the simplex first attempt, which passes the Frame
\* object rather than its string.
SendOutcomes(first) ==
    {<<"ok", TRUE>>, <<"ConnectionError", FALSE>>, <<"ConnectionError", TRUE>>}
    \cup (IF ~sock THEN {<<"OtherError", FALSE>>} ELSE {})
    \cup (IF role = "simplex" /\ first THEN {<<"OtherError", TRUE>>} ELSE {})

\* What the peer sends back for a frame it received.
Reply(f) ==
    IF f.command = "CONNECT" THEN <<Frame("CONNECTED", None, None, None)>>
    ELSE IF f.receipt # None THEN <<Frame("RECEIPT", None, None, f.receipt)>>
    ELSE <<>>

\* A frame that is written reaches the peer, whose answer is then in flight.
ConnSend(f, out) ==
    /\ sock' = out[2]
    /\ wire' = IF out[1] = "ok" THEN wire \o Reply(f)
               ELSE IF out[2] THEN wire
               ELSE <<>>

\* ------------------------------------------------------------------ peer
PeerPush ==
    /\ sock
    /\ pushes < PushBudget
    /\ \E f \in PushFrames : wire' = Append(wire, f)
    /\ pushes' = pushes + 1
    /\ UNCHANGED <<svars, fvars, role, threads, queues, subscribed_destinations, listening_event,
                   shutdown_event, buffer, sock, lvars, cvars>>

\* ------------------------------------------------- listener_forever
\* Classify with ERROR frames filed under the receipts and unknown commands
\* under the errors.
ClassifyMisfiled(f, subs) ==
    IF f.command \in {"RECEIPT", "ERROR"} THEN "receipt_queue"
    ELSE IF f.command = "MESSAGE"
         THEN IF f.destination \in subs THEN "message_queue" ELSE "none"
    ELSE IF f.command = "CONNECTED" THEN "connected_queue"
    ELSE "error_queue"

\* Classify without the subscription filter.
ClassifyUnfiltered(f, subs) ==
    IF f.command = "RECEIPT" THEN "receipt_queue"
    ELSE IF f.command = "MESSAGE" THEN "message_queue"
    ELSE IF f.command = "ERROR" THEN "error_queue"
    ELSE IF f.command = "CONNECTED" THEN "connected_queue"
    ELSE "none"

\* The queue the read loop puts a decoded frame on ("none": dropped).
Classify(f, subs) ==
    IF f.command = "RECEIPT" THEN "receipt_queue"
    ELSE IF f.command = "MESSAGE"
         THEN IF f.destination \in subs THEN "message_queue" ELSE "none"
    ELSE IF f.command = "ERROR" THEN "error_queue"
    ELSE IF f.command = "CONNECTED" THEN "connected_queue"
    ELSE "none"

LStart ==
    /\ role = "duplex"
    /\ lpc \in {"idle", "stopped"}
    /\ starts < StartBudget
    /\ starts' = starts + 1
    /\ listening_event' = TRUE
    /\ lerr' = None
    /\ lpc' = "clear"
    /\ UNCHANGED <<svars, fvars, role, threads, queues, subscribed_destinations, shutdown_event,
                   buffer, conn, cvars, pushes>>

LClear ==
    /\ lpc = "clear"
    /\ shutdown_event' = FALSE
    /\ lpc' = "loop"
    /\ UNCHANGED <<svars, fvars, role, threads, queues, subscribed_destinations, listening_event,
                   buffer, conn, lerr, starts, cvars, pushes>>

LCheck ==
    /\ lpc = "loop"
    /\ lpc' = IF shutdown_event THEN "finally" ELSE "read"
    /\ UNCHANGED <<svars, fvars, role, threads, queues, subscribed_destinations, listening_event,
                   shutdown_event, buffer, conn, lerr, starts, cvars, pushes>>

LReadData ==
    /\ lpc = "read"
    /\ sock
    /\ wire # <<>>
    /\ \E n \in 1..Min(MaxRead, Len(wire)) :
          /\ buffer' = buffer \o SubSeq(wire, 1, n)
          /\ wire' = SubSeq(wire, n + 1, Len(wire))
    /\ lpc' = "iter"
    /\ UNCHANGED <<svars, fvars, role, threads, queues, subscribed_destinations, listening_event,
                   shutdown_event, sock, lerr, starts, cvars, pushes>>

\* LReadEmpty going round the loop again.
LReadEmptyRetry ==
    /\ lpc = "read"
    /\ sock
    /\ lpc' = "loop"
    /\ UNCHANGED <<svars, fvars, role, threads, queues, subscribed_destinations, listening_event,
                   shutdown_event, buffer, conn, lerr, starts, cvars, pushes>>

\* recv returns '' (the peer closed) or times out (read returns None).
LReadEmpty ==
    /\ lpc = "read"
    /\ sock
    /\ lpc' = "finally"
    /\ UNCHANGED <<svars, fvars, role, threads, queues, subscribed_destinations, listening_event,
                   shutdown_event, buffer, conn, lerr, starts, cvars, pushes>>

\* LReadError leaving the method without its finally clause.
LReadErrorNoFinally ==
    /\ lpc = "read"
    /\ lerr' = "Error"
    /\ lpc' = "stopped"
    /\ UNCHANGED <<svars, fvars, role, threads, queues, subscribed_destinations, listening_event,
                   shutdown_event, buffer, conn, starts, cvars, pushes>>

\* An exception inside the loop body: recv raises, there is no socket to
\* call recv on, or the bytes read are no frame and make the extraction
\* raise, which it does after emptying the buffer.
LReadError ==
    /\ lpc = "read"
    /\ lerr' = "Error"
    /\ lpc' = "finally"
    /\ UNCHANGED <<svars, fvars, role, threads, queues, subscribed_destinations, listening_event,
                   shutdown_event, buffer, conn, starts, cvars, pushes>>

\* Put that inserts at the front of the queue.
PutFront(q, f) ==
    /\ receipt_queue' =
          IF q = "receipt_queue" THEN <<f>> \o receipt_queue ELSE receipt_queue
    /\ message_queue' =
          IF q = "message_queue" THEN <<f>> \o message_queue ELSE message_queue
    /\ error_queue' =
          IF q = "error_queue" THEN <<f>> \o error_queue ELSE error_queue
    /\ connected_queue' =
          IF q = "connected_queue" THEN <<f>> \o connected_queue
          ELSE connected_queue

\* Queue.put(frame) on the queue named q.
Put(q, f) ==
    /\ receipt_queue' =
          IF q = "receipt_queue" THEN Append(receipt_queue, f) ELSE receipt_queue
    /\ message_queue' =
          IF q = "message_queue" THEN Append(message_queue, f) ELSE message_queue
    /\ error_queue' =
          IF q = "error_queue" THEN Append(error_queue, f) ELSE error_queue
    /\ connected_queue' =
          IF q = "connected_queue" THEN Append(connected_queue, f)
          ELSE connected_queue

\* One round of "for frame in self.buffer": the next frame is extracted
\* and put on its queue; when the buffer yields no more frames the loop
\* goes back to its shutdown test.
LDispatch ==
    /\ lpc = "iter"
    /\ buffer # <<>>
    /\ buffer' = Tail(buffer)
    /\ Put(Classify(Head(buffer), subscribed_destinations), Head(buffer))
    /\ lpc' = IF Tail(buffer) = <<>> THEN "loop" ELSE "iter"
    /\ UNCHANGED <<svars, fvars, role, threads, subscribed_destinations, listening_event,
                   shutdown_event, conn, lerr, starts, cvars, pushes>>

\* LFinally waking the callers that wait for a frame.
LFinallyWakes ==
    /\ lpc = "finally"
    /\ listening_event' = FALSE
    /\ lpc' = "stopped"
    /\ connected_queue' = Append(connected_queue, NoFrame)
    /\ receipt_queue' = Append(receipt_queue, NoFrame)
    /\ UNCHANGED <<svars, fvars, role, threads, message_queue, error_queue,
                   subscribed_destinations, shutdown_event,
                   buffer, conn, lerr, starts, cvars, pushes>>

\* finally: self.listening_event.clear()
LFinally ==
    /\ lpc = "finally"
    /\ listening_event' = FALSE
    /\ lpc' = "stopped"
    /\ UNCHANGED <<svars, fvars, role, threads, queues, subscribed_destinations, shutdown_event,
                   buffer, conn, lerr, starts, cvars, pushes>>

Listener ==
    \/ LStart \/ LClear \/ LCheck \/ LReadData \/ LReadEmpty \/ LReadError
    \/ LDispatch \/ LFinally


\* --------------------------------------------------------- caller threads
\* 'receipt' in frame.headers
NeedReceipt(f) == f.receipt # None

\* EntryError without the listening test of the duplex client.
EntryErrorUnchecked(f, listening) ==
    IF role = "duplex" THEN None
    ELSE IF NeedReceipt(f) THEN "NotImplementedError" ELSE None

\* The entry check of send_frame: the error it raises, or None.
EntryError(f, listening) ==
    IF role = "duplex"
    THEN IF NeedReceipt(f) /\ ~listening THEN "UsageError" ELSE None
    ELSE IF NeedReceipt(f) THEN "NotImplementedError" ELSE None

\* SendFrameEntry with the simplex client accepting a receipt header.
SendFrameEntryAccepting(f) ==
    IF role = "duplex"
    THEN IF NeedReceipt(f) THEN "sf_check" ELSE "sf_send"
    ELSE "sf_send"

\* Where send_frame(f) first touches shared state: the duplex client reads
\* listening_event only for a frame with a receipt header; the simplex
\* client rejects such a frame at once.
SendFrameEntry(f) ==
    IF role = "duplex"
    THEN IF NeedReceipt(f) THEN "sf_check" ELSE "sf_send"
    ELSE IF NeedReceipt(f) THEN "raised" ELSE "sf_send"

\* Raise with the duplex disconnect() catching every error of its try
\* block.
RaiseCaught(c, e) ==
    /\ err' = [err EXCEPT ![c] =
                  IF role = "duplex" /\ op[c] = "disconnect" THEN None ELSE e]
    /\ pc' = [pc EXCEPT ![c] =
                IF role = "duplex" /\ op[c] = "disconnect"
                THEN "disc_finally" ELSE "raised"]

\* An exception e leaves the method at pc[c].  Inside the try block of the
\* duplex disconnect() the finally clause runs before it propagates.
Raise(c, e) ==
    /\ err' = [err EXCEPT ![c] = e]
    /\ pc' = [pc EXCEPT ![c] =
                IF role = "duplex" /\ op[c] = "disconnect"
                THEN "disc_finally" ELSE "raised"]

\* Where the calling method continues when send_frame has returned.
AfterSendFrame(c) ==
    IF op[c] = "connect"
    THEN IF role = "duplex" THEN "connect_get" ELSE "returned"
    ELSE IF op[c] = "subscribe" THEN "sub_add"
    ELSE IF op[c] = "unsubscribe" THEN "unsub_remove"
    ELSE IF op[c] = "disconnect"
         THEN IF role = "duplex" THEN "unsub_remove" ELSE "disc_close"
    ELSE "returned"

\* A caller thread that is in no call enters method o; f is the frame the
\* method builds, at its first step on shared state, cpy its copy of the
\* subscription set.  The threads are interchangeable, so the thread that
\* makes the first call is named FirstCaller.
Begin(c, o, f, at, cpy) ==
    /\ pc[c] \in {"idle", "returned", "raised"}
    /\ c \in threads
    /\ c = FirstCaller \/ calls[FirstCaller] > 0
    /\ calls[c] < CallBudget
    /\ calls' = [calls EXCEPT ![c] = @ + 1]
    /\ overlapped' = [overlapped EXCEPT ![c] = FALSE]
    /\ op' = [op EXCEPT ![c] = o]
    /\ frame' = [frame EXCEPT ![c] = f]
    /\ subcpy' = [subcpy EXCEPT ![c] = cpy]
    /\ sendlog' = [sendlog EXCEPT ![c] = <<>>]
    /\ disccalls' = [disccalls EXCEPT ![c] = 0]
    /\ written' = [written EXCEPT ![c] = <<>>]
    /\ ret' = [ret EXCEPT ![c] = NoFrame]
    /\ err' = [err EXCEPT ![c] = IF at = "raised" THEN "NotImplementedError"
                                 ELSE None]
    /\ pc' = [pc EXCEPT ![c] = at]
    /\ UNCHANGED <<svars, fvars, role, threads, queues, subscribed_destinations, listening_event,
                   shutdown_event, buffer, conn, lvars, pushes>>

\* connect(): builds the CONNECT frame and calls send_frame.
CallConnect(c) ==
    Begin(c, "connect", ConnectFrame, SendFrameEntry(ConnectFrame), {})

\* subscribe(destination): not implemented by PublishClient.
CallSubscribe(c) ==
    \E d \in Destinations :
       Begin(c, "subscribe", SubscribeFrame(d),
             IF role = "duplex" THEN SendFrameEntry(SubscribeFrame(d))
             ELSE "raised", {})

\* unsubscribe(destination): not implemented by PublishClient.
CallUnsubscribe(c) ==
    \E d \in Destinations :
       Begin(c, "unsubscribe", UnsubscribeFrame(d),
             IF role = "duplex" THEN SendFrameEntry(UnsubscribeFrame(d))
             ELSE "raised", {})

\* send_frame(frame) called by the application (send, ack, ...).
CallSendFrame(c) ==
    \E f \in AppFrames : Begin(c, "send_frame", f, SendFrameEntry(f), {})

\* disconnect(): the duplex client copies the subscription set and
\* unsubscribes from each member (in the set's iteration order); the
\* simplex client sends a DISCONNECT frame.
CallDisconnect(c) ==
    IF role = "duplex"
    THEN IF subscribed_destinations = {}
         THEN Begin(c, "disconnect", NoFrame, "disc_finally", {})
         ELSE \E d \in subscribed_destinations :
                 Begin(c, "disconnect", UnsubscribeFrame(d),
                       SendFrameEntry(UnsubscribeFrame(d)),
                       subscribed_destinations \ {d})
    ELSE Begin(c, "disconnect", DisconnectFrame,
               SendFrameEntry(DisconnectFrame), {})

\* if need_receipt and not self.listening_event.is_set(): raise
SfCheck(c) ==
    /\ pc[c] = "sf_check"
    /\ IF EntryError(frame[c], listening_event) # None
       THEN Raise(c, EntryError(frame[c], listening_event))
       ELSE /\ pc' = [pc EXCEPT ![c] = "sf_send"]
            /\ err' = err
    /\ UNCHANGED <<svars, fvars, role, threads, queues, subscribed_destinations, listening_event,
                   shutdown_event, buffer, conn, lvars, op, frame, subcpy,
                   sendlog, disccalls, written, ret, calls, overlapped, pushes>>

\* AfterAttempt waiting for a receipt after every successful duplex send.
AfterAttemptAlwaysWait(c, r, first) ==
    IF r = "ok"
    THEN IF role = "duplex" THEN "sf_receipt" ELSE AfterSendFrame(c)
    ELSE IF r = "ConnectionError" /\ first THEN "sf_disc"
    ELSE "raise"

\* AfterAttempt retrying after every ConnectionError.
AfterAttemptRetryAgain(c, r, first) ==
    IF r = "ok"
    THEN IF role = "duplex" /\ NeedReceipt(frame[c])
         THEN "sf_receipt" ELSE AfterSendFrame(c)
    ELSE IF r = "ConnectionError" THEN "sf_disc"
    ELSE "raise"

\* AfterAttempt returning normally from a send that failed for good.
AfterAttemptSwallow(c, r, first) ==
    IF r = "ok"
    THEN IF role = "duplex" /\ NeedReceipt(frame[c])
         THEN "sf_receipt" ELSE AfterSendFrame(c)
    ELSE IF r = "ConnectionError" /\ first THEN "sf_disc"
    ELSE AfterSendFrame(c)

\* What send_frame does after a Connection.send attempt with result r:
\* the first ConnectionError leads to disconnect-and-retry, any other
\* failure propagates.
AfterAttempt(c, r, first) ==
    IF r = "ok"
    THEN IF role = "duplex" /\ NeedReceipt(frame[c])
         THEN "sf_receipt" ELSE AfterSendFrame(c)
    ELSE IF r = "ConnectionError" /\ first THEN "sf_disc"
    ELSE "raise"

\* self.connection.send(...), first attempt or the retry.
SfSend(c) ==
    /\ pc[c] \in {"sf_send", "sf_resend"}
    /\ \E out \in SendOutcomes(pc[c] = "sf_send") :
          /\ ConnSend(frame[c], out)
          /\ sendlog' = [sendlog EXCEPT ![c] = Append(@, out[1])]
          /\ written' = [written EXCEPT ![c] =
                           IF out[1] = "ok" THEN Append(@, frame[c].command)
                           ELSE @]
          /\ IF AfterAttempt(c, out[1], pc[c] = "sf_send") = "raise"
             THEN Raise(c, out[1])
             ELSE /\ pc' = [pc EXCEPT ![c] =
                              AfterAttempt(c, out[1], pc[c] = "sf_send")]
                  /\ err' = err
    /\ UNCHANGED <<svars, fvars, role, threads, queues, subscribed_destinations, listening_event,
                   shutdown_event, buffer, lvars, op, frame, subcpy, disccalls,
                   ret, calls, overlapped, pushes>>

\* except ConnectionError: self.connection.disconnect()
SfDisc(c) ==
    /\ pc[c] = "sf_disc"
    /\ ConnDisconnect
    /\ disccalls' = [disccalls EXCEPT ![c] = @ + 1]
    /\ pc' = [pc EXCEPT ![c] = "sf_resend"]
    /\ UNCHANGED <<svars, fvars, role, threads, queues, subscribed_destinations, listening_event,
                   shutdown_event, buffer, lvars, op, frame, subcpy, sendlog,
                   written, ret, err, calls, overlapped, pushes>>

\* SfReceipt waiting for the RECEIPT frame that carries the receipt-id asked
\* for.
SfReceiptById(c) ==
    /\ pc[c] = "sf_receipt"
    /\ \E i \in 1..Len(receipt_queue) :
          /\ receipt_queue[i].receipt_id = frame[c].receipt
          /\ \A j \in 1..(i - 1) :
                receipt_queue[j].receipt_id # frame[c].receipt
          /\ ret' = [ret EXCEPT ![c] = receipt_queue[i]]
          /\ receipt_queue' = SubSeq(receipt_queue, 1, i - 1)
                               \o SubSeq(receipt_queue, i + 1,
                                         Len(receipt_queue))
    /\ pc' = [pc EXCEPT ![c] = "returned"]
    /\ UNCHANGED <<svars, fvars, role, threads, connected_queue, message_queue, error_queue,
                   subscribed_destinations, listening_event, shutdown_event,
                   buffer, conn, lvars, op, frame, subcpy, sendlog, disccalls,
                   written, err, calls, overlapped, pushes>>

\* return self.receipt_queue.get()
SfReceipt(c) ==
    /\ pc[c] = "sf_receipt"
    /\ receipt_queue # <<>>
    /\ ret' = [ret EXCEPT ![c] = Head(receipt_queue)]
    /\ receipt_queue' = Tail(receipt_queue)
    /\ pc' = [pc EXCEPT ![c] = "returned"]
    /\ UNCHANGED <<svars, fvars, role, threads, connected_queue, message_queue, error_queue,
                   subscribed_destinations, listening_event, shutdown_event,
                   buffer, conn, lvars, op, frame, subcpy, sendlog, disccalls,
                   written, err, calls, overlapped, pushes>>

\* ConnectGet returning the oldest CONNECTED frame without taking it off.
ConnectPeek(c) ==
    /\ pc[c] = "connect_get"
    /\ connected_queue # <<>>
    /\ ret' = [ret EXCEPT ![c] = Head(connected_queue)]
    /\ pc' = [pc EXCEPT ![c] = "returned"]
    /\ UNCHANGED <<svars, fvars, role, threads, queues, subscribed_destinations,
                   listening_event, shutdown_event, buffer, conn, lvars, op,
                   frame, subcpy, sendlog, disccalls, written, err, calls, overlapped,
                   pushes>>

\* return self.connected_queue.get()
ConnectGet(c) ==
    /\ pc[c] = "connect_get"
    /\ connected_queue # <<>>
    /\ ret' = [ret EXCEPT ![c] = Head(connected_queue)]
    /\ connected_queue' = Tail(connected_queue)
    /\ pc' = [pc EXCEPT ![c] = "returned"]
    /\ UNCHANGED <<svars, fvars, role, threads, message_queue, receipt_queue, error_queue,
                   subscribed_destinations, listening_event, shutdown_event,
                   buffer, conn, lvars, op, frame, subcpy, sendlog, disccalls,
                   written, err, calls, overlapped, pushes>>

\* self.subscribed_destinations.add(destination)
SubAdd(c) ==
    /\ pc[c] = "sub_add"
    /\ subscribed_destinations' =
          subscribed_destinations \cup {frame[c].destination}
    /\ pc' = [pc EXCEPT ![c] = "returned"]
    /\ overlapped' =
          [c2 \in Callers |->
             \/ overlapped[c2]
             \/ c2 # c /\ op[c2] = "disconnect"]
    /\ UNCHANGED <<svars, fvars, role, threads, queues, listening_event, shutdown_event, buffer, conn,
                   lvars, op, frame, subcpy, sendlog, disccalls, written, ret,
                   err, calls, pushes>>

\* Removed leaving the set as it was.
RemovedNothing(subs, d) == subs

\* set.remove(d), for a d that is in the set.
Removed(subs, d) == subs \ {d}

\* self.subscribed_destinations.remove(destination): KeyError if absent.
\* Inside disconnect() the loop then goes on to the next destination of
\* the copy, or leaves the try block.
UnsubRemove(c) ==
    /\ pc[c] = "unsub_remove"
    /\ IF frame[c].destination \notin subscribed_destinations
       THEN /\ Raise(c, "KeyError")
            /\ UNCHANGED <<subscribed_destinations, frame, subcpy, sendlog,
                           disccalls>>
       ELSE /\ subscribed_destinations' =
                  Removed(subscribed_destinations, frame[c].destination)
            /\ err' = err
            /\ IF op[c] # "disconnect"
               THEN /\ pc' = [pc EXCEPT ![c] = "returned"]
                    /\ UNCHANGED <<frame, subcpy, sendlog, disccalls>>
               ELSE IF subcpy[c] = {}
               THEN /\ pc' = [pc EXCEPT ![c] = "disc_finally"]
                    /\ UNCHANGED <<frame, subcpy, sendlog, disccalls>>
               ELSE \E d \in subcpy[c] :
                       /\ subcpy' = [subcpy EXCEPT ![c] = @ \ {d}]
                       /\ frame' = [frame EXCEPT ![c] = UnsubscribeFrame(d)]
                       /\ sendlog' = [sendlog EXCEPT ![c] = <<>>]
                       /\ disccalls' = [disccalls EXCEPT ![c] = 0]
                       /\ pc' = [pc EXCEPT ![c] =
                                   SendFrameEntry(UnsubscribeFrame(d))]
    /\ UNCHANGED <<svars, fvars, role, threads, queues, listening_event, shutdown_event, buffer, conn,
                   lvars, op, written, ret, calls, overlapped, pushes>>

\* finally: self.shutdown_event.set()
DiscFinally(c) ==
    /\ pc[c] = "disc_finally"
    /\ shutdown_event' = TRUE
    /\ pc' = [pc EXCEPT ![c] = IF err[c] # None THEN "raised" ELSE "disc_close"]
    /\ UNCHANGED <<svars, fvars, role, threads, queues, subscribed_destinations, listening_event,
                   buffer, conn, lvars, op, frame, subcpy, sendlog, disccalls,
                   written, ret, err, calls, overlapped, pushes>>

\* self.connection.disconnect()
DiscClose(c) ==
    /\ pc[c] = "disc_close"
    /\ ConnDisconnect
    /\ pc' = [pc EXCEPT ![c] = "returned"]
    /\ UNCHANGED <<svars, fvars, role, threads, queues, subscribed_destinations, listening_event,
                   shutdown_event, buffer, lvars, op, frame, subcpy, sendlog,
                   disccalls, written, ret, err, calls, overlapped, pushes>>

\* The application takes the oldest frame off message_queue or error_queue
\* (Queue.get on the public attribute).
AppGet ==
    /\ role = "duplex"
    /\ \/ /\ message_queue # <<>>
          /\ message_queue' = Tail(message_queue)
          /\ error_queue' = error_queue
       \/ /\ error_queue # <<>>
          /\ error_queue' = Tail(error_queue)
          /\ message_queue' = message_queue
    /\ UNCHANGED <<svars, fvars, role, threads, connected_queue, receipt_queue,
                   subscribed_destinations, listening_event, shutdown_event,
                   buffer, conn, lvars, cvars, pushes>>

Caller(c) ==
    \/ CallConnect(c) \/ CallSubscribe(c) \/ CallUnsubscribe(c)
    \/ CallSendFrame(c) \/ CallDisconnect(c)
    \/ SfCheck(c) \/ SfSend(c) \/ SfDisc(c) \/ SfReceipt(c)
    \/ ConnectGet(c) \/ SubAdd(c) \/ UnsubRemove(c) \/ DiscFinally(c)
    \/ DiscClose(c)

Next ==
    \/ Listener
    \/ \E c \in Callers : Caller(c)
    \/ PeerPush
    \/ AppGet

Spec == Init /\ [][Next]_vars

TypeOK ==
    /\ role \in {"duplex", "simplex"}
    /\ listening_event \in BOOLEAN
    /\ shutdown_event \in BOOLEAN
    /\ sock \in BOOLEAN
    /\ subscribed_destinations \subseteq Destinations
    /\ ~sock => wire = <<>>

\* ------------------------------------------------------------- fairness
\* The listener thread and a caller blocked on a queue are scheduled; a
\* read with data available returns.  Nothing obliges the application to
\* start the listener or make calls, the peer to push, or a read to fail.
ListenerRuns == LClear \/ LCheck \/ LReadData \/ LDispatch \/ LFinally

FairSpec ==
    /\ Init
    /\ [][Next]_vars
    /\ WF_vars(ListenerRuns)
    /\ \A c \in Callers : WF_vars(ConnectGet(c)) /\ WF_vars(SfReceipt(c))

\* ----------------------------------------------------------- properties
InCall(c) == pc[c] \notin {"idle", "returned", "raised"}
Stepped(c) == pc'[c] # pc[c]
Dispatching == lpc = "iter" /\ buffer' = Tail(buffer)
Last(q) == q[Len(q)]

\* C1: each frame the read loop decodes goes on at most one queue, chosen by
\* its command alone (RECEIPT -> receipt_queue, ERROR -> error_queue,
\* CONNECTED -> connected_queue); a frame with any other command but MESSAGE
\* goes on no queue, and the loop keeps running.
C1_Dispatch ==
    [][Dispatching =>
        LET f == Head(buffer) IN
        /\ f.command = "RECEIPT" =>
              /\ receipt_queue' = Append(receipt_queue, f)
              /\ UNCHANGED <<connected_queue, message_queue, error_queue>>
        /\ f.command = "ERROR" =>
              /\ error_queue' = Append(error_queue, f)
              /\ UNCHANGED <<connected_queue, message_queue, receipt_queue>>
        /\ f.command = "CONNECTED" =>
              /\ connected_queue' = Append(connected_queue, f)
              /\ UNCHANGED <<message_queue, receipt_queue, error_queue>>
        /\ f.command \notin {"RECEIPT", "ERROR", "CONNECTED", "MESSAGE"} =>
              UNCHANGED queues
        /\ Cardinality({i \in 1..4 : queues'[i] # queues[i]}) <= 1
        /\ lpc' \in {"iter", "loop"}
        /\ lerr' = lerr
        /\ listening_event' = listening_event]_vars

\* An ERROR frame has been queued and a frame with a command the loop has no
\* queue for is being dispatched.
C1_Witness ==
    /\ error_queue # <<>>
    /\ lpc = "iter"
    /\ Head(buffer).command = "SEND"

\* C2: a decoded MESSAGE frame is appended to message_queue if and only if
\* its destination is in subscribed_destinations when it is classified;
\* otherwise all four queues stay as they are.
C2_MessageFilter ==
    [][Dispatching /\ Head(buffer).command = "MESSAGE" =>
        IF Head(buffer).destination \in subscribed_destinations
        THEN /\ message_queue' = Append(message_queue, Head(buffer))
             /\ UNCHANGED <<connected_queue, receipt_queue, error_queue>>
        ELSE UNCHANGED queues]_vars

\* A MESSAGE for a subscribed destination has been queued and one for a
\* destination that is not subscribed is being dispatched.
C2_Witness ==
    /\ message_queue # <<>>
    /\ lpc = "iter"
    /\ Head(buffer).command = "MESSAGE"
    /\ Head(buffer).destination \notin subscribed_destinations
    /\ subscribed_destinations # {}

\* One step of a queue that keeps its order: nothing, a put of the frame
\* being dispatched at the tail, or a get of the oldest frame.
FifoStep(q, qn) ==
    \/ qn = q
    \/ Dispatching /\ qn = Append(q, Head(buffer))
    \/ q # <<>> /\ qn = Tail(q)

\* C3: stream order is preserved per queue: a read appends a prefix of the
\* stream to the buffer, the buffer yields its frames oldest first, a
\* decoded frame is put at the tail of its queue, and whoever takes a frame
\* off a queue takes the oldest one.
C3_StreamOrder ==
    [][/\ \A i \in 1..4 : FifoStep(queues[i], queues'[i])
       /\ \/ buffer' = buffer
          \/ buffer # <<>> /\ buffer' = Tail(buffer)
          \/ \E n \in 1..Len(wire) :
                /\ buffer' = buffer \o SubSeq(wire, 1, n)
                /\ wire' = SubSeq(wire, n + 1, Len(wire))]_vars

\* Two different frames wait on receipt_queue.
C3_Witness ==
    /\ Len(receipt_queue) = 2
    /\ receipt_queue[1] # receipt_queue[2]

\* A CONNECTED frame is on the stream, in the buffer or on connected_queue.
ConnectedPending ==
    \E f \in {wire[i] : i \in 1..Len(wire)}
             \cup {buffer[i] : i \in 1..Len(buffer)}
             \cup {connected_queue[i] : i \in 1..Len(connected_queue)} :
       f.command = "CONNECTED"

ConnectWritesOnce ==
    \A c \in Callers :
       role = "duplex" /\ op[c] = "connect" =>
          /\ pc[c] \in {"connect_get", "returned"} => written[c] = <<"CONNECT">>
          /\ pc[c] = "returned" => ret[c].command = "CONNECTED"
          /\ Len(written[c]) <= 1

ConnectTakesHead ==
    \A c \in Callers :
       role = "duplex" /\ op[c] = "connect" /\ pc'[c] = "returned"
       /\ pc[c] # "returned" =>
          /\ pc[c] = "connect_get"
          /\ connected_queue # <<>>
          /\ ret'[c] = Head(connected_queue)
          /\ connected_queue' = Tail(connected_queue)

\* C4: the duplex connect() writes exactly one CONNECT frame, returns only
\* by taking the oldest frame off connected_queue, which the read loop put
\* there, and returns that frame; while the loop is listening and a
\* CONNECTED answer is on its way, connect() eventually returns.
C4_Connect ==
    /\ []ConnectWritesOnce
    /\ [][ConnectTakesHead]_vars
    /\ \A c \in Callers :
          (pc[c] = "connect_get" /\ listening_event /\ ConnectedPending)
             ~> (pc[c] = "returned" \/ ~listening_event \/ ~ConnectedPending)

\* A connect() has returned the CONNECTED frame while the loop listens.
C4_Witness ==
    \E c \in Callers :
       /\ role = "duplex"
       /\ op[c] = "connect"
       /\ pc[c] = "returned"
       /\ ret[c].command = "CONNECTED"
       /\ listening_event

\* C5: a duplex send_frame of a frame with a receipt header returns only by
\* taking the oldest frame off receipt_queue and returns that frame; a
\* send_frame of a frame without one returns with the successful write,
\* returns nothing, and no step of it changes receipt_queue.
C5_ReceiptWait ==
    [][\A c \in Callers :
          role = "duplex" /\ Stepped(c) /\ InCall(c) =>
             /\ op[c] = "send_frame" /\ pc'[c] = "returned" =>
                   IF NeedReceipt(frame[c])
                   THEN /\ receipt_queue # <<>>
                        /\ ret'[c] = Head(receipt_queue)
                        /\ receipt_queue' = Tail(receipt_queue)
                   ELSE /\ ret'[c] = NoFrame
                        /\ Last(sendlog'[c]) = "ok"
                        /\ Len(sendlog'[c]) = Len(sendlog[c]) + 1
             /\ ~NeedReceipt(frame[c]) => receipt_queue' = receipt_queue]_vars

\* A send with a receipt header has returned a RECEIPT frame, and a frame
\* is still left on receipt_queue.
C5_Witness ==
    \E c \in Callers :
       /\ role = "duplex"
       /\ op[c] = "send_frame"
       /\ NeedReceipt(frame[c])
       /\ pc[c] = "returned"
       /\ ret[c].command = "RECEIPT"
       /\ receipt_queue # <<>>

\* C6: a send that requests receipt r returns a RECEIPT frame whose
\* receipt-id is r.
C6_ReceiptCorrelated ==
    \A c \in Callers :
       role = "duplex" /\ op[c] = "send_frame" /\ NeedReceipt(frame[c])
       /\ pc[c] = "returned" =>
          ret[c].command = "RECEIPT" /\ ret[c].receipt_id = frame[c].receipt

\* C7: a duplex send_frame of a frame with a receipt header, made while
\* listening_event is clear, raises at once: nothing is written, the
\* Connection is neither closed nor reopened, no queue is touched and the
\* subscription set stays as it is.
C7_FailFast ==
    /\ [](\A c \in Callers :
             pc[c] = "raised" /\ err[c] = "UsageError" =>
                written[c] = <<>> /\ sendlog[c] = <<>> /\ disccalls[c] = 0)
    /\ [][\A c \in Callers :
             role = "duplex" /\ pc[c] = "sf_check" /\ Stepped(c)
             /\ ~listening_event =>
                /\ NeedReceipt(frame[c])
                /\ pc'[c] = "raised"
                /\ err'[c] = "UsageError"
                /\ UNCHANGED <<conn, queues, subscribed_destinations,
                               written, sendlog, disccalls>>]_vars

\* A send with a receipt header has raised the usage error.
C7_Witness ==
    \E c \in Callers :
       /\ pc[c] = "raised"
       /\ err[c] = "UsageError"
       /\ NeedReceipt(frame[c])
       /\ ~listening_event

\* C8: the duplex disconnect() writes an UNSUBSCRIBE for every destination
\* subscribed at the call, then a DISCONNECT frame, then sets the shutdown
\* signal, then closes the Connection: the last frame it has written when it
\* returns is DISCONNECT.
C8_DisconnectFrameLast ==
    \A c \in Callers :
       role = "duplex" /\ op[c] = "disconnect" /\ pc[c] = "returned" =>
          /\ written[c] # <<>>
          /\ Last(written[c]) = "DISCONNECT"
          /\ \A i \in 1..(Len(written[c]) - 1) : written[c][i] = "UNSUBSCRIBE"

\* The duplex disconnect() of thread c has returned, and no other thread
\* has added a subscription since it was called.
DisconnectReturned(c) ==
    /\ role = "duplex"
    /\ op[c] = "disconnect"
    /\ pc[c] = "returned"
    /\ ~overlapped[c]

\* C9: once the duplex disconnect() has returned, no other thread having
\* subscribed meanwhile, subscribed_destinations is empty, and a MESSAGE
\* decoded from then on changes no queue.
C9_DisconnectUnsubscribes ==
    /\ [](\A c \in Callers :
             DisconnectReturned(c) => subscribed_destinations = {})
    /\ [][\A c \in Callers :
             DisconnectReturned(c) /\ Dispatching
             /\ Head(buffer).command = "MESSAGE" => UNCHANGED queues]_vars

\* disconnect() has returned after unsubscribing from a destination, and a
\* MESSAGE for that destination is being dispatched.
C9_Witness ==
    \E c \in Callers :
       /\ DisconnectReturned(c)
       /\ written[c] # <<>>
       /\ lpc = "iter"
       /\ Head(buffer).command = "MESSAGE"
       /\ Head(buffer).destination = frame[c].destination

Rejected(c) ==
    \/ op[c] \in {"subscribe", "unsubscribe"}
    \/ op[c] = "send_frame" /\ NeedReceipt(frame[c])

\* C11: the simplex client rejects subscribe, unsubscribe and every frame
\* with a receipt header with NotImplementedError; the rejected call writes
\* nothing and neither opens nor closes the Connection.
C11_SimplexRejects ==
    /\ [](\A c \in Callers :
             role = "simplex" /\ Rejected(c) =>
                /\ pc[c] = "raised"
                /\ err[c] = "NotImplementedError"
                /\ written[c] = <<>>
                /\ sendlog[c] = <<>>
                /\ disccalls[c] = 0)
    /\ [][\A c \in Callers :
             role = "simplex" /\ calls'[c] # calls[c] /\ Rejected(c)' =>
                UNCHANGED conn]_vars

\* A frame with a receipt header has been rejected by a simplex client whose
\* Connection is open.
C11_Witness ==
    \E c \in Callers :
       /\ role = "simplex"
       /\ sock
       /\ op[c] = "send_frame"
       /\ NeedReceipt(frame[c])
       /\ pc[c] = "raised"

\* C12: the simplex disconnect() called on a client whose Connection was
\* never connected does nothing: no frame is written, the Connection is not
\* opened and Connection.disconnect is not reached.
C12_DisconnectNoop ==
    \A c \in Callers :
       role = "simplex" /\ Single /\ calls[c] = 1 /\ op[c] = "disconnect" =>
          /\ written[c] = <<>>
          /\ ~sock
          /\ pc[c] # "disc_close"

\* ========================================================= frame codec
\* A byte string is a sequence of bytes, a byte a one-character string; LF
\* and NUL stand for "\n" and "\x00".
LF == "LF"
NUL == "NUL"
SP == " "
Whitespace == {LF, SP}
Digit == <<"0", "1", "2", "3", "4", "5", "6", "7", "8", "9">>

Range(s) == {s[k] : k \in DOMAIN s}

\* s[a:b] and s[a:] for non-negative a and b.
Slice(s, a, b) == SubSeq(s, a + 1, Min(b, Len(s)))
SliceFrom(s, a) == SubSeq(s, a + 1, Len(s))

\* s.find(sub): the index (from 0) of the first occurrence, or -1.
Find(s, sub) ==
    LET hits == {k \in 0..(Len(s) - Len(sub)) :
                    SubSeq(s, k + 1, k + Len(sub)) = sub}
    IN  IF hits = {} THEN -1
        ELSE CHOOSE k \in hits : \A j \in hits : k <= j

\* s.split(sep) for a one-byte separator.
RECURSIVE Split(_, _)
Split(s, sep) ==
    IF Find(s, <<sep>>) = -1 THEN <<s>>
    ELSE <<Slice(s, 0, Find(s, <<sep>>))>>
         \o Split(SliceFrom(s, Find(s, <<sep>>) + 1), sep)

\* s.split(sep, 1)
SplitOnce(s, sep) ==
    IF Find(s, <<sep>>) = -1 THEN <<s>>
    ELSE <<Slice(s, 0, Find(s, <<sep>>)), SliceFrom(s, Find(s, <<sep>>) + 1)>>

\* s.partition(sep): the part before the separator and the part after it.
Partition(s, sep) ==
    IF Find(s, sep) = -1 THEN <<s, <<>>>>
    ELSE <<Slice(s, 0, Find(s, sep)), SliceFrom(s, Find(s, sep) + Len(sep))>>

\* The number of leading, and of trailing, whitespace bytes of s.
RECURSIVE LeadingWs(_)
LeadingWs(s) ==
    IF s # <<>> /\ Head(s) \in Whitespace THEN 1 + LeadingWs(Tail(s)) ELSE 0

RECURSIVE TrailingWs(_)
TrailingWs(s) ==
    IF s # <<>> /\ s[Len(s)] \in Whitespace
    THEN 1 + TrailingWs(SubSeq(s, 1, Len(s) - 1)) ELSE 0

LStrip(s) == SliceFrom(s, LeadingWs(s))
Strip(s) == LStrip(SubSeq(s, 1, Len(s) - TrailingWs(s)))

\* "%s" % n for a non-negative integer, and int(digits).
RECURSIVE ToDigits(_)
ToDigits(n) ==
    IF n < 10 THEN <<Digit[n + 1]>>
    ELSE ToDigits(n \div 10) \o <<Digit[(n % 10) + 1]>>

DigitValue(b) == (CHOOSE k \in DOMAIN Digit : Digit[k] = b) - 1

RECURSIVE ToInt(_)
ToInt(ds) ==
    IF ds = <<>> THEN 0
    ELSE 10 * ToInt(SubSeq(ds, 1, Len(ds) - 1)) + DigitValue(ds[Len(ds)])

\* The number of leading digits of s.
RECURSIVE LeadingDigits(_)
LeadingDigits(s) ==
    IF s # <<>> /\ Head(s) \in Range(Digit)
    THEN 1 + LeadingDigits(Tail(s)) ELSE 0

\* str.upper(), on the letters the model's commands are written in.
UpperByte(b) ==
    IF b = "a" THEN "A" ELSE IF b = "c" THEN "C" ELSE IF b = "k" THEN "K"
    ELSE b

Upper(s) == [k \in DOMAIN s |-> UpperByte(s[k])]

\* STOMP 1.0 commands.
VALID_COMMANDS ==
    {<<"A", "B", "O", "R", "T">>,
     <<"A", "C", "K">>,
     <<"B", "E", "G", "I", "N">>,
     <<"C", "O", "M", "M", "I", "T">>,
     <<"C", "O", "N", "N", "E", "C", "T">>,
     <<"C", "O", "N", "N", "E", "C", "T", "E", "D">>,
     <<"D", "I", "S", "C", "O", "N", "N", "E", "C", "T">>,
     <<"M", "E", "S", "S", "A", "G", "E">>,
     <<"S", "E", "N", "D">>,
     <<"S", "U", "B", "S", "C", "R", "I", "B", "E">>,
     <<"U", "N", "S", "U", "B", "S", "C", "R", "I", "B", "E">>,
     <<"R", "E", "C", "E", "I", "P", "T">>,
     <<"E", "R", "R", "O", "R">>}

ContentLengthKey == <<"c", "o", "n", "t", "e", "n", "t", "-", "l", "e", "n", "g", "t", "h">>

\* dict(pairs): the last pair with a key wins.
DictOf(pairs) ==
    LET last(k) == CHOOSE n \in DOMAIN pairs :
                      /\ pairs[n][1] = k
                      /\ \A j \in DOMAIN pairs : pairs[j][1] = k => j <= n
    IN  [k \in {pairs[n][1] : n \in DOMAIN pairs} |-> pairs[last(k)][2]]

\* Frame(command, headers, body): assigning the command validates it.
NewFrame(cmd, headers, body) ==
    IF Upper(cmd) \in VALID_COMMANDS
    THEN [status |-> "ok",
          frame |-> [command |-> Upper(cmd), headers |-> headers,
                     body |-> body]]
    ELSE [status |-> "FrameError"]

\* The orders a dict with key set keys can be iterated in.
Orders(keys) ==
    {o \in [1..Cardinality(keys) -> keys] : Range(o) = keys}

\* The header dict after pack() has set content-length.
PackedHeaders(f) == (ContentLengthKey :> ToDigits(Len(f.body))) @@ f.headers

RECURSIVE HeaderLines(_, _)
HeaderLines(headers, order) ==
    IF order = <<>> THEN <<>>
    ELSE Head(order) \o <<":">> \o headers[Head(order)] \o <<LF>>
         \o HeaderLines(headers, Tail(order))

\* Frame.pack(), the dict being iterated in the given order.
Pack(f, order) ==
    f.command \o <<LF>> \o HeaderLines(PackedHeaders(f), order) \o <<LF>>
    \o f.body \o <<NUL>>

\* Frame.parse_headers: dict() refuses an element that is not a pair.
PairsToDict(pairs) ==
    IF \E n \in DOMAIN pairs : Len(pairs[n]) # 2
    THEN [status |-> "ValueError"]
    ELSE [status |-> "ok", headers |-> DictOf(pairs)]

SplitLines(lines) == [n \in DOMAIN lines |-> SplitOnce(lines[n], ":")]

ParseHeaders(headers_str) == PairsToDict(SplitLines(Split(headers_str, LF)))

\* Frame.unpack(framebytes): the headers are parsed from everything before
\* the first blank line, then the command is assigned.
UnpackParsed(command, parsed, body) ==
    IF parsed.status # "ok" THEN [status |-> parsed.status]
    ELSE NewFrame(command, parsed.headers, body)

UnpackParts(command, parts) ==
    IF parts[1] = <<>> THEN [status |-> "FrameError"]
    ELSE UnpackParsed(command, ParseHeaders(parts[1]), parts[2])

Unpack(framebytes) ==
    UnpackParts(SplitOnce(framebytes, LF)[1],
                Partition(framebytes, <<LF, LF>>))

\* ---------------------------------------------------------- FrameBuffer
\* command_re.match(b): the first line when it is not empty and ends in a
\* newline, the empty string for no match.
CommandRe(b) ==
    IF b # <<>> /\ b[1] # LF /\ Find(b, <<LF>>) # -1
    THEN Slice(b, 0, Find(b, <<LF>>)) ELSE <<>>

\* sync_re.subn('', b): "." does not match a newline, so the pattern
\* matches only a NUL on the first line; the result and the number of
\* substitutions.
SyncRe(b) ==
    LET j == Find(b, <<NUL>>)
        n == Find(b, <<LF>>)
    IN  IF j # -1 /\ (n = -1 \/ j < n) THEN <<SliceFrom(b, j + 1), 1>>
        ELSE <<b, 0>>

\* sync_buffer making one pass only.
sync_buffer_once(b) ==
    IF b = <<>> THEN b
    ELSE IF CommandRe(b) = <<>> THEN b
    ELSE IF CommandRe(b) \in VALID_COMMANDS THEN b
    ELSE IF SyncRe(b)[2] > 0 THEN SyncRe(b)[1]
    ELSE <<>>

\* FrameBuffer.sync_buffer(): the buffer it leaves.
RECURSIVE sync_buffer(_)
sync_buffer(b) ==
    IF b = <<>> THEN b
    ELSE IF CommandRe(b) = <<>> THEN b
    ELSE IF CommandRe(b) \in VALID_COMMANDS THEN b
    ELSE IF SyncRe(b)[2] > 0 THEN sync_buffer(SyncRe(b)[1])
    ELSE <<>>

\* content_length_re matched at offset p of h: the value, or -1.  The
\* pattern is "\ncontent-length", whitespace, a colon, whitespace, digits,
\* whitespace, and a newline or the end of the string.
ClEnds(r, ws) == ws = Len(r) \/ LF \in Range(Slice(r, 0, ws))

ClDigits(r, nd) ==
    IF nd >= 1 /\ ClEnds(SliceFrom(r, nd), LeadingWs(SliceFrom(r, nd)))
    THEN ToInt(Slice(r, 0, nd)) ELSE -1

ClValue(r) == ClDigits(r, LeadingDigits(r))

ClColon(r) ==
    IF r # <<>> /\ r[1] = ":" THEN ClValue(LStrip(Tail(r))) ELSE -1

ContentLengthAt(h, p) ==
    IF Slice(h, p, p + 1 + Len(ContentLengthKey)) = <<LF>> \o ContentLengthKey
    THEN ClColon(LStrip(SliceFrom(h, p + 1 + Len(ContentLengthKey))))
    ELSE -1

\* content_length_re.search(h): the value at the leftmost match, or -1.
ClLeftmost(h, hits) ==
    IF hits = {} THEN -1
    ELSE ContentLengthAt(h, CHOOSE p \in hits : \A q \in hits : p <= q)

ContentLengthRe(h) ==
    ClLeftmost(h, {p \in 0..Len(h) : ContentLengthAt(h, p) # -1})

\* _find_message_bytes(data): data is the buffer as it was when the method
\* was called, buf the buffer sync_buffer() has left; i is the offset of
\* the first blank line of data, j of its first NUL.
FindTerminated(i, j) == IF j = -1 THEN <<0, 0>> ELSE <<j + 1, i>>

\* FindFramed not waiting for the whole body.
FindFramedEarly(data, i, content_length) ==
    IF content_length # -1
    THEN IF Len(data) < i + 2 + 1 THEN <<0, 0>>
         ELSE <<i + 2 + content_length + 1, i>>
    ELSE FindTerminated(i, Find(data, <<NUL>>))

\* FindFramed leaving the terminator byte in the buffer.
FindFramedShort(data, i, content_length) ==
    IF content_length # -1
    THEN IF Len(data) < i + 2 + content_length + 1 THEN <<0, 0>>
         ELSE <<i + 2 + content_length, i>>
    ELSE FindTerminated(i, Find(data, <<NUL>>))

FindFramed(data, i, content_length) ==
    IF content_length # -1
    THEN IF Len(data) < i + 2 + content_length + 1 THEN <<0, 0>>
         ELSE <<i + 2 + content_length + 1, i>>
    ELSE FindTerminated(i, Find(data, <<NUL>>))

FindHeader(data, buf, i) ==
    IF i = -1 THEN <<0, 0>>
    ELSE FindFramed(data, i, ContentLengthRe(Slice(buf, 0, i)))

find_message_bytes(data, buf) == FindHeader(data, buf, Find(data, <<LF, LF>>))

\* The header dict extract_message builds from the header lines: a line with
\* no colon is skipped.
HeaderPair(kv) ==
    IF Len(kv) = 2 THEN <<<<Strip(kv[1]), Strip(kv[2])>>>> ELSE <<>>

RECURSIVE HeaderPairs(_)
HeaderPairs(elems) ==
    IF elems = <<>> THEN <<>>
    ELSE HeaderPair(SplitOnce(Head(elems), ":")) \o HeaderPairs(Tail(elems))

\* FrameBuffer.extract_message() on buffer b: the buffer it leaves and a
\* frame, None or the exception raised.
ExtractResult(rest, made) ==
    IF made.status = "ok"
    THEN [buffer |-> rest, status |-> "ok", frame |-> made.frame]
    ELSE [buffer |-> rest, status |-> made.status]

ExtractParsed(rest, elems, body) ==
    ExtractResult(rest,
        NewFrame(Head(elems), DictOf(HeaderPairs(Tail(elems))), body))

ExtractBytes(rest, msgdata, hbytes) ==
    ExtractParsed(rest, Split(LStrip(Slice(msgdata, 0, hbytes)), LF),
                  Slice(msgdata, hbytes + 2, Len(msgdata) - 1))

ExtractFoundDrops(buf, found) ==
    IF found[1] = 0 THEN [buffer |-> <<>>, status |-> "None"]
    ELSE ExtractBytes(SliceFrom(buf, found[1]), Slice(buf, 0, found[1]),
                      found[2])

ExtractFoundKeeps(buf, found) ==
    IF found[1] = 0 THEN [buffer |-> buf, status |-> "None"]
    ELSE ExtractBytes(buf, Slice(buf, 0, found[1]), found[2])

ExtractFound(buf, found) ==
    IF found[1] = 0 THEN [buffer |-> buf, status |-> "None"]
    ELSE ExtractBytes(SliceFrom(buf, found[1]), Slice(buf, 0, found[1]),
                      found[2])

ExtractSynced(data, buf) == ExtractFound(buf, find_message_bytes(data, buf))

extract_message(b) == ExtractSynced(b, sync_buffer(b))

\* ------------------------------------------------- the codec in use
MaxFrames == 2       \* frames the sender packs
MaxBody == 2         \* bytes in a body

ACK == <<"A", "C", "K">>
BodyBytes == {"x", NUL, LF}
Bodies == UNION {[1..n -> BodyBytes] : n \in 0..MaxBody}
HeaderDicts == {<<>>, (<<"a">> :> <<"b">>)}

\* The frames the sender packs.
FrameInputs ==
    {NewFrame(ACK, h, b).frame : h \in HeaderDicts, b \in Bodies}

\* A frame as a peer writes it that sends no content-length header.
Unframed(body) == ACK \o <<LF, LF>> \o body \o <<NUL>>

\* A frame as a peer writes it whose header block names the key a twice,
\* the second value holding a colon.
Duplicated ==
    ACK \o <<LF, "a", ":", "b", LF, "a", ":", "c", ":", "d", LF, LF, NUL>>

\* Bytes that reach the buffer ahead of the packed frames: nothing, frames
\* with no content-length header, a frame with a repeated header key, a
\* frame after a stray newline, a frame with its command in lower case, and
\* corrupt bytes with and without a NUL on their first line.
Corrupt ==
    {<<LF>> \o Unframed(<<"x">>),
     <<"a", "c", "k", LF, LF, NUL>>,
     <<"G", LF, "d", NUL>>,
     <<"G", NUL>>,
     <<"G", NUL, "d", LF>>}

RawInputs ==
    {<<>>, Duplicated} \cup {Unframed(b) : b \in Bodies} \cup Corrupt

\* Byte strings handed to Frame.unpack that no pack() produced: a header
\* line with no colon, an unknown command, no blank line, nothing, and a
\* first line with a colon.
Malformed ==
    {<<>>,
     ACK \o <<LF, "a", ":", "b", LF, "c", LF, LF, "x", NUL>>,
     <<"G", LF, "a", ":", "b", LF, LF, NUL>>,
     ACK \o <<LF, "a", ":", "b", LF>>,
     <<LF, LF>> \o ACK,
     ACK \o <<":", "x", LF, LF, NUL>>}

\* The frames packed after the first have at most one byte of body.
FrameSeqs ==
    {fs \in UNION {[1..n -> FrameInputs] : n \in 0..MaxFrames} :
        \A k \in 2..Len(fs) : Len(fs[k].body) <= 1 /\ fs[k].headers = <<>>}

CodecInit ==
    /\ role = "duplex"
    /\ threads = {FirstCaller}
    /\ ClientFresh
    /\ fframes \in FrameSeqs
    /\ fraw \in (IF fframes = <<>> THEN RawInputs
                  ELSE IF Len(fframes) = 1 THEN Corrupt \cup {<<>>}
                  ELSE {<<>>})
    /\ fstream = fraw
    /\ fall = fraw
    /\ fbuffer = <<>>
    /\ fout = <<>>
    /\ fdrained = TRUE
    /\ ferr = None
    /\ fpacked \in (IF fframes = <<>> /\ fraw = <<>> THEN Malformed
                    ELSE {<<>>})
    /\ fdecoded = [status |-> "none"]
    /\ fequal = None
    /\ SideIdle

clientvars == <<role, threads, queues, subscribed_destinations,
                listening_event, shutdown_event, buffer, conn, lvars, cvars,
                pushes>>

\* The sender packs its next frame and writes the bytes to the stream; it
\* has written the stream before the receiver reads it.
FPack ==
    /\ fframes # <<>>
    /\ \E order \in Orders(DOMAIN PackedHeaders(Head(fframes))) :
          \E framebytes \in {Pack(Head(fframes), order)} :
             /\ fstream' = fstream \o framebytes
             /\ fall' = fall \o framebytes
             /\ fpacked' = framebytes
    /\ fframes' = Tail(fframes)
    /\ fdecoded' = [status |-> "none"]
    /\ UNCHANGED <<svars, clientvars, fraw, fbuffer, fout, fdrained, ferr, fequal>>

\* FrameBuffer.append(data), data being the next n bytes of the stream.
FAppend ==
    /\ fframes = <<>>
    /\ fstream # <<>>
    /\ fdrained
    /\ ferr = None
    /\ \E n \in 1..Len(fstream) :
          /\ fbuffer' = fbuffer \o SubSeq(fstream, 1, n)
          /\ fstream' = SubSeq(fstream, n + 1, Len(fstream))
    /\ fdrained' = FALSE
    /\ UNCHANGED <<svars, clientvars, fraw, fframes, fall, fout, ferr, fpacked,
                   fdecoded, fequal>>

\* One step of "for frame in buffer": next() calls extract_message().
FExtractOnce ==
    /\ ~fdrained
    /\ ferr = None
    /\ \E r \in {extract_message(fbuffer)} :
          /\ fbuffer' = r.buffer
          /\ fout' = IF r.status = "ok" THEN Append(fout, r.frame) ELSE fout
          /\ fdrained' = TRUE
          /\ ferr' = IF r.status \in {"ok", "None"} THEN None ELSE r.status
    /\ UNCHANGED <<svars, clientvars, fraw, fframes, fstream, fall, fpacked,
                   fdecoded, fequal>>

FExtract ==
    /\ ~fdrained
    /\ ferr = None
    /\ \E r \in {extract_message(fbuffer)} :
          /\ fbuffer' = r.buffer
          /\ fout' = IF r.status = "ok" THEN Append(fout, r.frame) ELSE fout
          /\ fdrained' = (r.status # "ok")
          /\ ferr' = IF r.status \in {"ok", "None"} THEN None ELSE r.status
    /\ UNCHANGED <<svars, clientvars, fraw, fframes, fstream, fall, fpacked,
                   fdecoded, fequal>>

\* FrameBuffer.sync_buffer() called by the application.
FSync ==
    /\ ferr = None
    /\ fbuffer' = sync_buffer(fbuffer)
    /\ UNCHANGED <<svars, clientvars, fraw, fframes, fstream, fall, fout, fdrained,
                   ferr, fpacked, fdecoded, fequal>>

\* Frame().unpack(framebytes)
FUnpack ==
    /\ fpacked # <<>>
    /\ fstream = fall
    /\ fdecoded.status = "none"
    /\ fdecoded' = Unpack(fpacked)
    /\ UNCHANGED <<svars, clientvars, fraw, fframes, fstream, fall, fbuffer, fout,
                   fdrained, ferr, fpacked, fequal>>

CodecNext == FPack \/ FAppend \/ FExtract \/ FSync \/ FUnpack

CodecSpec == CodecInit /\ [][CodecNext]_vars

\* ------------------------------------------------- frame comparison
\* name.replace('_', '-')
Dashed(name) == [i \in DOMAIN name |-> IF name[i] = "_" THEN "-" ELSE name[i]]

\* Frame.__getattr__(name), for a name that is no instance attribute and
\* does not start with an underscore: <<v>> for a value v, <<>> for None.
GetAttr(f, name) ==
    IF name \in DOMAIN f.headers THEN <<f.headers[name]>>
    ELSE IF Dashed(name) \in DOMAIN f.headers THEN <<f.headers[Dashed(name)]>>
    ELSE <<>>

\* The attribute __eq__ reads for the command; the instance attribute that
\* holds the command is _cmd, its property is command.
CmdAttr == <<"c", "m", "d">>

\* Frame.__eq__(f, g), both Frame instances.
FrameEq(f, g) ==
    /\ GetAttr(f, CmdAttr) = GetAttr(g, CmdAttr)
    /\ f.headers = g.headers
    /\ f.body = g.body

\* The frames compared: two commands, with and without a header, with and
\* without a header named cmd, with and without a body.
SEND == <<"S", "E", "N", "D">>
EqHeaders == {<<>>, (<<"a">> :> <<"b">>), (CmdAttr :> <<"x">>)}
EqBodies == {<<>>, <<"x">>}
EqInputs ==
    {NewFrame(cmd, h, b).frame : cmd \in {ACK, SEND}, h \in EqHeaders,
                                 b \in EqBodies}

EqInit ==
    /\ role = "duplex"
    /\ threads = {FirstCaller}
    /\ ClientFresh
    /\ fframes \in [1..2 -> EqInputs]
    /\ fraw = <<>>
    /\ fstream = <<>>
    /\ fall = <<>>
    /\ fbuffer = <<>>
    /\ fout = <<>>
    /\ fdrained = TRUE
    /\ ferr = None
    /\ fpacked = <<>>
    /\ fdecoded = [status |-> "none"]
    /\ fequal = None
    /\ SideIdle

\* fframes[1] == fframes[2]
FCompare ==
    /\ Len(fframes) = 2
    /\ fequal = None
    /\ fequal' = IF FrameEq(fframes[1], fframes[2]) THEN "True" ELSE "False"
    /\ UNCHANGED <<svars, clientvars, fraw, fframes, fstream, fall, fbuffer, fout,
                   fdrained, ferr, fpacked, fdecoded>>

EqNext == FCompare

EqSpec == EqInit /\ [][EqNext]_vars

\* ------------------------------------------------- codec properties
\* "for frame in buffer" on buffer b, run to its end: the frames yielded,
\* the buffer left and the exception that ended it, if any.
RECURSIVE Drain(_)
DrainMore(r) ==
    IF r.status = "ok"
    THEN [Drain(r.buffer) EXCEPT !.frames = <<r.frame>> \o @]
    ELSE [frames |-> <<>>, buffer |-> r.buffer,
          err |-> IF r.status = "None" THEN None ELSE r.status]

Drain(b) == DrainMore(extract_message(b))

\* The bytes appended to the buffer so far.
Appended == SubSeq(fall, 1, Len(fall) - Len(fstream))

\* A pack() has produced fpacked.
Packed == fpacked # <<>> /\ Len(fall) > Len(fraw)

\* C13: unpack(pack(f)) is a frame with the command, the headers and the
\* body of f, for a frame f with a valid command, header keys without
\* newline or colon, and any body.
C13_RoundTrip ==
    Packed /\ fdecoded.status # "none" =>
       /\ fdecoded.status = "ok"
       /\ \E f \in FrameInputs :
             /\ \E order \in Orders(DOMAIN PackedHeaders(f)) :
                   fpacked = Pack(f, order)
             /\ fdecoded.frame.command = f.command
             /\ fdecoded.frame.headers = PackedHeaders(f)
             /\ fdecoded.frame.body = f.body

\* C14: pack() writes the command line, one line per header, a blank line,
\* the body and one terminator byte; a frame whose caller gave it no
\* content-length header is written without one.
C14_LengthOptional ==
    Packed =>
       \E f \in FrameInputs :
          \E order \in Orders(DOMAIN f.headers) :
             fpacked = f.command \o <<LF>> \o HeaderLines(f.headers, order)
                       \o <<LF>> \o f.body \o <<NUL>>

\* C15: however a stream of packed frames is cut into chunks, appending a
\* chunk and draining the buffer after each yields the frames, and leaves
\* the buffer, that appending the same bytes at once and draining once
\* does.
C15_ChunkInvariance ==
    fraw = <<>> /\ fdrained =>
       /\ ferr = None
       /\ fout = Drain(Appended).frames
       /\ fbuffer = Drain(Appended).buffer

\* The first frame has been yielded and the buffer holds the first byte of
\* the second.
C15_Witness ==
    /\ fraw = <<>>
    /\ fdrained
    /\ Len(fout) = 1
    /\ Len(fbuffer) = 1
    /\ fstream # <<>>

\* C16: with a garbage line, data and a terminator byte ahead of a packed
\* frame in the buffer, draining yields that frame, raises nothing and
\* leaves the buffer empty.
C16_Recovery ==
    /\ fraw = <<"G", LF, "d", NUL>>
    /\ Len(fall) > Len(fraw)
    /\ fstream = <<>>
    /\ fdrained
    => /\ ferr = None
       /\ Len(fout) = 1
       /\ fbuffer = <<>>

\* C17: an extraction from a buffer whose first line is not a recognized
\* command raises nothing.
C17_NeverRaises ==
    [][/\ ~fdrained
       /\ CommandRe(fbuffer) # <<>>
       /\ CommandRe(fbuffer) \notin VALID_COMMANDS
       => ferr' = None]_vars

\* The buffer starts with a recognized command line and its header block
\* has the line content-length:n.
HasLength(b, n) ==
    /\ CommandRe(b) \in VALID_COMMANDS
    /\ Find(b, <<LF, LF>>) # -1
    /\ \E k \in 2..Len(Split(Slice(b, 0, Find(b, <<LF, LF>>)), LF)) :
          Split(Slice(b, 0, Find(b, <<LF, LF>>)), LF)[k]
             = ContentLengthKey \o <<":">> \o ToDigits(n)

\* The buffer starts with a recognized command line, its header block has
\* no content-length line, and a terminator byte follows the blank line.
HasNoLength(b) ==
    /\ CommandRe(b) \in VALID_COMMANDS
    /\ Find(b, <<LF, LF>>) # -1
    /\ Find(b, ContentLengthKey) = -1
    /\ Find(b, <<NUL>>) >= Find(b, <<LF, LF>>) + 2

\* C18: with content-length n in the header block and the whole frame in the
\* buffer, extraction yields the n bytes after the blank line as the body,
\* whatever they are, and takes header length + 2 + n + 1 bytes off the
\* buffer; with no content-length the body ends at the first terminator
\* byte.
C18_BinarySafe ==
    [][~fdrained /\ ferr = None /\ fout' # fout =>
         LET i == Find(fbuffer, <<LF, LF>>)
             j == Find(fbuffer, <<NUL>>)
         IN  /\ \A n \in 0..Len(fbuffer) :
                   Len(fbuffer) >= i + 2 + n + 1 /\ HasLength(fbuffer, n) =>
                      /\ fout'[Len(fout')].body
                            = SubSeq(fbuffer, i + 3, i + 2 + n)
                      /\ fbuffer' = SubSeq(fbuffer, i + 2 + n + 2,
                                           Len(fbuffer))
             /\ HasNoLength(fbuffer) =>
                   /\ fout'[Len(fout')].body = SubSeq(fbuffer, i + 3, j)
                   /\ fbuffer' = SubSeq(fbuffer, j + 2, Len(fbuffer))]_vars

\* A frame with a content-length header has been yielded whose body holds a
\* terminator byte, and one with no content-length header.
C18_Witness ==
    /\ \E k \in DOMAIN fout :
          /\ ContentLengthKey \in DOMAIN fout[k].headers
          /\ NUL \in Range(fout[k].body)
    /\ \E k \in DOMAIN fout : ContentLengthKey \notin DOMAIN fout[k].headers

\* C19: sync_buffer() leaves a buffer that starts with a recognized command
\* and a newline as it is, and leaves every buffer it has processed as it
\* is when it is run again.
C19_SyncIdempotent ==
    /\ CommandRe(fbuffer) \in VALID_COMMANDS => sync_buffer(fbuffer) = fbuffer
    /\ sync_buffer(sync_buffer(fbuffer)) = sync_buffer(fbuffer)

\* The buffer holds corrupt bytes of which sync_buffer() discards a part.
C19_Witness ==
    /\ sync_buffer(fbuffer) # fbuffer
    /\ sync_buffer(fbuffer) # <<>>

\* The malformed byte strings the decoder is said to answer with FrameError:
\* a header line with no colon, an unknown command, no blank line.
MalformedClaimed ==
    {ACK \o <<LF, "a", ":", "b", LF, "c", LF, LF, "x", NUL>>,
     <<"G", LF, "a", ":", "b", LF, LF, NUL>>,
     ACK \o <<LF, "a", ":", "b", LF>>}

\* C20: Frame.unpack fails with FrameError on a header line with no colon,
\* on an unknown command and on a missing blank line.
C20_FrameError ==
    fpacked \in MalformedClaimed /\ fdecoded.status # "none" =>
       fdecoded.status = "FrameError"

\* C21: two frames compare equal if and only if their command, their
\* headers and their body all match.
C21_Equality ==
    fequal # None =>
       (fequal = "True" <=>
           /\ fframes[1].command = fframes[2].command
           /\ fframes[1].headers = fframes[2].headers
           /\ fframes[1].body = fframes[2].body)

\* ------------------------------------- Connection and client properties
\* C22: Connection.disconnect() called on a Connection that has no socket
\* raises NotConnectedError; in the duplex disconnect(), which calls it
\* outside its try block, the error reaches the caller.
C22_DisconnectRaises ==
    [][\A c \in Callers :
          role = "duplex" /\ pc[c] = "disc_close" /\ ~sock /\ Stepped(c) =>
             /\ pc'[c] = "raised"
             /\ err'[c] = "NotConnectedError"]_vars

\* C23: Connection.read() called on a Connection that has no socket opens
\* the socket first and then reads; it raises nothing for want of a socket.
C23_ReadConnects ==
    [][lpc = "read" /\ ~sock /\ lpc' # lpc => sock' /\ lerr' = None]_vars

\* C24: subscribe(d) adds d to subscribed_destinations only in the step
\* after its SUBSCRIBE frame was written successfully; a subscribe whose
\* send fails raises with the set as it was; and a MESSAGE for d decoded
\* while d is not yet in the set goes on no queue.
C24_SubscribeAfterSend ==
    [][role = "duplex" =>
         /\ \A d \in subscribed_destinations' \ subscribed_destinations :
               \E c \in Callers :
                  /\ op[c] = "subscribe"
                  /\ pc[c] = "sub_add"
                  /\ Stepped(c)
                  /\ frame[c].destination = d
                  /\ sendlog[c] # <<>>
                  /\ Last(sendlog[c]) = "ok"
                  /\ written[c] = <<"SUBSCRIBE">>
         /\ \A c \in Callers :
               /\ op[c] = "subscribe" /\ Stepped(c) /\ pc'[c] = "raised" =>
                     /\ err'[c] # None
                     /\ UNCHANGED subscribed_destinations
               /\ /\ op[c] = "subscribe"
                  /\ InCall(c)
                  /\ frame[c].destination \notin subscribed_destinations
                  /\ Dispatching
                  /\ Head(buffer).command = "MESSAGE"
                  /\ Head(buffer).destination = frame[c].destination
                  => UNCHANGED queues]_vars

\* A subscribe has written its SUBSCRIBE frame and not yet updated the set,
\* and a MESSAGE for its destination is being dispatched.
C24_Witness ==
    \E c \in Callers :
       /\ role = "duplex"
       /\ op[c] = "subscribe"
       /\ pc[c] = "sub_add"
       /\ written[c] = <<"SUBSCRIBE">>
       /\ frame[c].destination \notin subscribed_destinations
       /\ lpc = "iter"
       /\ Head(buffer).command = "MESSAGE"
       /\ Head(buffer).destination = frame[c].destination

\* C25: an unsubscribe(d) whose UNSUBSCRIBE frame was written completes
\* without error, whether or not d was subscribed.
C25_UnsubscribeCompletes ==
    \A c \in Callers :
       /\ role = "duplex"
       /\ op[c] = "unsubscribe"
       /\ written[c] = <<"UNSUBSCRIBE">>
       /\ ~InCall(c)
       => pc[c] = "returned" /\ err[c] = None

\* A duplex disconnect() has set the shutdown signal and is closing the
\* Connection or has returned.
ShutdownRequested ==
    \E c \in Callers :
       /\ role = "duplex"
       /\ op[c] = "disconnect"
       /\ pc[c] \in {"disc_close", "returned"}

\* C26: once disconnect() has set the shutdown signal the read loop starts
\* no new read, whether the signal was set while the loop was reading,
\* while it was starting, or before.
C26_ShutdownStops ==
    [][ShutdownRequested /\ lpc # "read" => lpc' # "read"]_vars

\* C27: listening_event is set exactly while listener_forever is running:
\* it is set on entry, and every way out of the method, with or without an
\* exception, goes through the finally clause that clears it; the exception
\* stays with the loop's starter.
C27_ListeningFlag ==
    /\ [](listening_event <=> lpc \notin {"idle", "stopped"})
    /\ [][lpc' = "stopped" /\ lpc # "stopped" =>
            /\ lpc = "finally"
            /\ lerr' = lerr
            /\ ~listening_event']_vars

\* The read loop has been ended by an exception and the flag is clear.
C27_Witness ==
    /\ lpc = "stopped"
    /\ lerr = "Error"
    /\ ~listening_event

\* C28: a send_frame that waits on an empty receipt_queue does so only
\* while the read loop is listening.
C28_NoBlindWait ==
    \A c \in Callers :
       role = "duplex" /\ pc[c] = "sf_receipt" /\ receipt_queue = <<>> =>
          listening_event

\* C29: a step that leaves the read loop stopping or stopped puts nothing
\* on any queue, and a caller that waits in connect() or in send_frame on an
\* empty queue is still waiting after it.
C29_StopWakesNobody ==
    [][lpc' \in {"finally", "stopped"} =>
         /\ \A i \in 1..4 :
               \/ queues'[i] = queues[i]
               \/ queues[i] # <<>> /\ queues'[i] = Tail(queues[i])
         /\ \A c \in Callers :
               /\ pc[c] = "connect_get" /\ connected_queue = <<>> =>
                     pc'[c] = "connect_get"
               /\ pc[c] = "sf_receipt" /\ receipt_queue = <<>> =>
                     pc'[c] = "sf_receipt"]_vars

\* The read loop has stopped while a connect() waits on the empty
\* connected_queue, the CONNECTED frame still on the stream.
C29_Witness ==
    \E c \in Callers :
       /\ pc[c] = "connect_get"
       /\ connected_queue = <<>>
       /\ lpc = "stopped"
       /\ wire # <<>>

\* C30: receipt_queue holds RECEIPT frames only; a send_frame that waits
\* for a receipt leaves by taking the oldest frame off receipt_queue,
\* whatever its receipt-id, and can do so as soon as the queue holds a
\* frame, be it one that was queued before the send.
C30_ReceiptByOrder ==
    /\ [](\A i \in 1..Len(receipt_queue) :
             receipt_queue[i].command = "RECEIPT")
    /\ [](\A c \in Callers :
             pc[c] = "sf_receipt" /\ receipt_queue # <<>> =>
                ENABLED SfReceipt(c))
    /\ [][\A c \in Callers :
             pc[c] = "sf_receipt" /\ Stepped(c) =>
                /\ receipt_queue # <<>>
                /\ ret'[c] = Head(receipt_queue)
                /\ receipt_queue' = Tail(receipt_queue)
                /\ pc'[c] = "returned"]_vars

\* A send_frame has returned a RECEIPT frame that was queued before its own
\* frame was written and carries another receipt-id than the one it asked
\* for, while its own RECEIPT is on the queue.
C30_Witness ==
    \E c \in Callers :
       /\ op[c] = "send_frame"
       /\ NeedReceipt(frame[c])
       /\ pc[c] = "returned"
       /\ ret[c].command = "RECEIPT"
       /\ ret[c].receipt_id # frame[c].receipt
       /\ receipt_queue # <<>>
       /\ Head(receipt_queue).receipt_id = frame[c].receipt

\* ------------------------------------------------- decoding and draining
\* C31: a frame decoded from a header block that names one key more than
\* once holds the value of the first occurrence of that key.
C31_FirstOccurrence ==
    \A k \in 1..Len(fout) :
        fall = Duplicated => fout[k].headers = (<<"a">> :> <<"b">>)

\* The buffer starts with a recognized command line and holds no complete
\* frame: no blank line yet, or fewer bytes than the content-length span, or
\* no content-length line and no terminator byte.
Incomplete(b) ==
    /\ CommandRe(b) \in VALID_COMMANDS
    /\ \/ Find(b, <<LF, LF>>) = -1
       \/ \E n \in 0..Len(b) :
             /\ Len(b) < Find(b, <<LF, LF>>) + 2 + n + 1
             /\ HasLength(b, n)
       \/ Find(b, ContentLengthKey) = -1 /\ Find(b, <<NUL>>) = -1

\* A step of the iteration has run extract_message().
Extracted == ~fdrained /\ ferr = None /\ (fdrained' \/ fout' # fout)

\* C32: extraction from a buffer that starts with a recognized command and
\* holds no complete frame returns None and leaves the buffer as it is; an
\* extraction from a buffer that starts with a recognized command and
\* returns a frame takes the bytes of that frame, no more and no fewer, off
\* the front of the buffer and leaves the rest.
C32_ExtractEffect ==
    [][Extracted /\ CommandRe(fbuffer) \in VALID_COMMANDS =>
         /\ Incomplete(fbuffer) =>
               fdrained' /\ fout' = fout /\ ferr' = None /\ fbuffer' = fbuffer
         /\ fout' # fout =>
               LET k == Len(fbuffer) - Len(fbuffer')
               IN  /\ k > 0
                   /\ fbuffer = SubSeq(fbuffer, 1, k) \o fbuffer'
                   /\ Drain(SubSeq(fbuffer, 1, k))
                         = [frames |-> <<fout'[Len(fout')]>>,
                            buffer |-> <<>>, err |-> None]
                   /\ \A m \in 0..(k - 1) :
                         extract_message(SubSeq(fbuffer, 1, m)).status
                            = "None"]_vars

\* A frame has been taken off the buffer and the header block of the next,
\* with its blank line, waits there for its body.
C32_Witness ==
    /\ fdrained
    /\ Len(fout) = 1
    /\ Incomplete(fbuffer)
    /\ Find(fbuffer, <<LF, LF>>) # -1

\* p is the front of b.
IsPrefix(p, b) == Len(p) <= Len(b) /\ SubSeq(b, 1, Len(p)) = p

\* The byte strings pack() writes for the frames the sender packs.
AllPacked ==
    UNION {{Pack(f, order) : order \in Orders(DOMAIN PackedHeaders(f))} :
              f \in FrameInputs}

\* The byte strings pack() writes for the frame that decodes to g.
PackedOf(g) ==
    UNION {{Pack(f, order) : order \in Orders(DOMAIN PackedHeaders(f))} :
              f \in {e \in FrameInputs : /\ e.command = g.command
                                         /\ e.body = g.body
                                         /\ PackedHeaders(e) = g.headers}}

\* <<rest>> with the bytes left of b once the packed forms of the frames
\* have been taken off its front one after the other, <<>> if b does not
\* start with them.
RECURSIVE StripFrames(_, _)
StripFrames(frames, b) ==
    IF frames = <<>> THEN <<b>>
    ELSE IF \E q \in PackedOf(Head(frames)) : IsPrefix(q, b)
    THEN StripFrames(Tail(frames),
            SliceFrom(b, Len(CHOOSE q \in PackedOf(Head(frames)) :
                                 IsPrefix(q, b))))
    ELSE <<>>

\* C33: once the iteration over the buffer has ended, the frames it yielded
\* are, in order, the packed frames that had arrived whole, the buffer holds
\* the bytes after them and no whole frame; and the iteration goes on after
\* each frame it yields, so frames that arrived together are all yielded
\* before the next append.
C33_DrainsAll ==
    /\ [](fraw = <<>> /\ fdrained =>
            /\ ferr = None
            /\ StripFrames(fout, Appended) = <<fbuffer>>
            /\ \A q \in AllPacked : ~IsPrefix(q, fbuffer))
    /\ [][fraw = <<>> /\ fout' # fout => ~fdrained']_vars

\* Two packed frames arrived before the iteration began: it has yielded the
\* first, the buffer holds the whole second, and the iteration goes on.
C33_Witness ==
    /\ fraw = <<>>
    /\ ~fdrained
    /\ Len(fout) = 1
    /\ fbuffer \in AllPacked

\* C34: what sync_buffer() leaves of a buffer is a suffix of it that is
\* empty, or holds no newline, or starts with a recognized command.
C34_Resynced ==
    /\ \E k \in 0..Len(fbuffer) : sync_buffer(fbuffer) = SliceFrom(fbuffer, k)
    /\ \/ sync_buffer(fbuffer) = <<>>
       \/ LF \notin Range(sync_buffer(fbuffer))
       \/ CommandRe(sync_buffer(fbuffer)) \in VALID_COMMANDS

\* C35: a pass of sync_buffer() that discards bytes leaves a strictly
\* shorter buffer, whichever suffix of the buffer it works on; an extraction
\* that returns a frame leaves a strictly shorter buffer, so that the frames
\* yielded and the bytes buffered never outnumber the bytes appended.
C35_Terminates ==
    /\ [](\A k \in 0..Len(fbuffer) :
            SyncRe(SliceFrom(fbuffer, k))[2] > 0 =>
               Len(SyncRe(SliceFrom(fbuffer, k))[1])
                  < Len(SliceFrom(fbuffer, k)))
    /\ [](Len(sync_buffer(fbuffer)) <= Len(fbuffer))
    /\ [][Extracted /\ fout' # fout => Len(fbuffer') < Len(fbuffer)]_vars
    /\ [](Len(fout) + Len(fbuffer) <= Len(Appended))

\* An iteration is under way over a buffer of corrupt bytes that
\* sync_buffer() discards in more than one pass.
C35_Witness ==
    /\ ~fdrained
    /\ CommandRe(fbuffer) # <<>>
    /\ CommandRe(fbuffer) \notin VALID_COMMANDS
    /\ SyncRe(fbuffer)[2] > 0
    /\ sync_buffer(fbuffer) # SyncRe(fbuffer)[1]

\* ------------------------------------------------- stopping and failing
\* The listener's read has returned no data and raised nothing.
ReadNothing ==
    lpc = "read" /\ lpc' # "read" /\ buffer' = buffer /\ lerr' = None

\* The listener has left its loop and has not been started again.
LoopOver == lpc \in {"finally", "stopped"}

\* C39: a read that returns no data because it timed out ends the read
\* loop as end-of-stream does: the loop goes to its finally clause with the
\* connection and the shutdown signal as they were, the listening flag is
\* clear once it has stopped, and until the loop is started again no frame
\* is read or put on a queue.
C39_TimeoutStops ==
    /\ [][ReadNothing =>
            lpc' = "finally" /\ UNCHANGED <<conn, shutdown_event, queues>>]_vars
    /\ [](lpc = "stopped" => ~listening_event)
    /\ [][LoopOver /\ LoopOver' =>
            /\ buffer' = buffer
            /\ Len(message_queue') <= Len(message_queue)
            /\ Len(receipt_queue') <= Len(receipt_queue)
            /\ Len(error_queue') <= Len(error_queue)
            /\ Len(connected_queue') <= Len(connected_queue)]_vars

\* The loop has stopped on a read that returned nothing: no error, the
\* shutdown signal clear, the connection open, and a frame that arrived
\* since waits unread.
C39_Witness ==
    /\ lpc = "stopped"
    /\ lerr = None
    /\ ~shutdown_event
    /\ ~listening_event
    /\ sock
    /\ wire # <<>>

\* Both attempts to send an UNSUBSCRIBE frame of the duplex disconnect()
\* that c is in, or was in last, failed with ConnectionError.
UnsubFailed(c) ==
    /\ role = "duplex"
    /\ op[c] = "disconnect"
    /\ sendlog[c] = <<"ConnectionError", "ConnectionError">>

\* C40: when both attempts to send an UNSUBSCRIBE frame of the duplex
\* disconnect() fail with ConnectionError, the call sets the shutdown signal
\* and ends with that error, it does not reach its own
\* connection.disconnect(), and the destination whose frame failed and
\* those not yet tried stay in subscribed_destinations.
C40_FailedDisconnect ==
    /\ [](\A c \in Callers :
            UnsubFailed(c) =>
               /\ pc[c] \in {"disc_finally", "raised"}
               /\ err[c] = "ConnectionError"
               /\ Single =>
                     {frame[c].destination} \cup subcpy[c]
                        \subseteq subscribed_destinations)
    /\ [][\A c \in Callers :
            UnsubFailed(c) /\ pc[c] = "disc_finally" /\ Stepped(c) =>
               /\ shutdown_event'
               /\ pc'[c] = "raised"
               /\ UNCHANGED <<conn, subscribed_destinations>>]_vars

\* disconnect() has ended with the error of the first of two destinations:
\* the shutdown signal is set, the connection is open and the second
\* destination was never tried.
C40_Witness ==
    \E c \in Callers :
       /\ UnsubFailed(c)
       /\ pc[c] = "raised"
       /\ shutdown_event
       /\ sock
       /\ subcpy[c] # {}
       /\ subscribed_destinations = Destinations

\* ------------------------------------------------- the connection pool
\* The classes a pool argument can have.
PoolClasses == {"ConnectionPool", "ThreadLocalConnectionPool"}

\* isinstance(p, threading.local)
IsThreadLocal(p) == p = "ThreadLocalConnectionPool"

\* The threads that use a client: the duplex client has a listener thread.
ClientThreads ==
    IF role = "duplex" THEN PoolThreads ELSE PoolThreads \ {ListenerThread}

\* The largest of a set of naturals, 0 for the empty set.
Max(S) == IF S = {} THEN 0 ELSE CHOOSE n \in S : \A m \in S : m <= n

PoolInit ==
    /\ role \in {"duplex", "simplex"}
    /\ threads = {FirstCaller}
    /\ ClientFresh
    /\ CodecIdle
    /\ pool \in {PoolFresh(arg) : arg \in PoolClasses \cup {None}}
    /\ poll = PollFresh
    /\ fepoch = 0

\* BaseClient.__init__ keeps the pool it is given, or a new
\* ThreadLocalConnectionPool when it is given none; the duplex __init__
\* then raises if its argument is a thread-local pool.
PConstruct ==
    /\ pool.constructed = "no"
    /\ pool' = [pool EXCEPT
                  !.connection_pool = IF pool.arg # None THEN pool.arg
                                      ELSE "ThreadLocalConnectionPool",
                  !.constructed = IF role = "duplex" /\ IsThreadLocal(pool.arg)
                                  THEN "raised" ELSE "ok"]
    /\ UNCHANGED <<clientvars, fvars, poll, fepoch>>

\* Thread t reads self.connection: get_connection() returns the Connection
\* the dict holds under the client's key, making one first if there is
\* none.  The dict of a thread-local pool is an attribute each thread has
\* its own of.
PGet(t) ==
    /\ pool.constructed = "ok"
    /\ t \in ClientThreads
    /\ \E made \in {IF pool.connections[t] # 0 THEN pool.connections[t]
                     ELSE 1 + Max({pool.connections[u] : u \in PoolThreads})} :
          pool' = [pool EXCEPT
                     !.connections =
                        IF IsThreadLocal(pool.connection_pool)
                        THEN [@ EXCEPT ![t] = made]
                        ELSE [u \in PoolThreads |->
                                IF @[u] = 0 THEN made ELSE @[u]],
                     !.held = [@ EXCEPT ![t] = made]]
    /\ UNCHANGED <<clientvars, fvars, poll, fepoch>>

PoolNext == PConstruct \/ \E t \in PoolThreads : PGet(t)

PoolSpec == PoolInit /\ [][PoolNext]_vars

\* C36: a duplex client that has been constructed, with or without a pool
\* argument, keeps no thread-local pool, and its listener thread and its
\* caller threads get the same Connection from it.
C36_OneConnection ==
    role = "duplex" /\ pool.constructed = "ok" =>
       /\ ~IsThreadLocal(pool.connection_pool)
       /\ \A t \in ClientThreads :
             pool.held[ListenerThread] # 0 /\ pool.held[t] # 0 =>
                pool.held[t] = pool.held[ListenerThread]

\* ------------------------------------------- the socket-polling Frame
MaxArrive == 3       \* frames that arrive on the socket
MaxPollCalls == 3    \* calls of get_message and get_reply

\* A frame the server sends: its command, whether it has a destination
\* header, and its place in the order of arrival.
PollFrame(cmd, dest, n) == [command |-> cmd, destination |-> dest, id |-> n]

\* The frames that arrive: a MESSAGE with and without a destination header,
\* and a reply to a command.
PollKinds == {<<"MESSAGE", TRUE>>, <<"MESSAGE", FALSE>>, <<"RECEIPT", FALSE>>}

PollInit ==
    /\ role = "duplex"
    /\ threads = {FirstCaller}
    /\ ClientFresh
    /\ CodecIdle
    /\ SideIdle

\* The server writes a frame to the socket.
QArrive ==
    /\ poll.arrived < MaxArrive
    /\ \E kind \in PollKinds :
          poll' = [poll EXCEPT
                     !.sock = Append(@, PollFrame(kind[1], kind[2],
                                                  poll.arrived + 1)),
                     !.arrived = @ + 1]
    /\ UNCHANGED <<clientvars, fvars, pool, fepoch>>

\* The application calls get_message(nb) or get_reply(nb).
QCall ==
    /\ poll.call = NoCall
    /\ poll.calls < MaxPollCalls
    /\ \E m \in {"get_message", "get_reply"}, nb \in BOOLEAN :
          poll' = [poll EXCEPT !.call = [method |-> m, nb |-> nb],
                               !.calls = @ + 1]
    /\ UNCHANGED <<clientvars, fvars, pool, fepoch>>

\* IntermediateMessageQueue.put(f) on queue q: the queue it leaves.
IQueuePut(q, f) == IF f.destination THEN Append(q, f) ELSE q

\* What get_message does with the frame f it got, q being the polling
\* Frame once f was taken: it returns a MESSAGE, and puts any other frame
\* on rqueue and goes round again.
MessageGot(q, f) ==
    IF f.command = "MESSAGE"
    THEN [q EXCEPT !.messages = Append(@, f), !.call = NoCall]
    ELSE [q EXCEPT !.rqueue = Append(@, f)]

\* One round of the loop of get_message: iqueue.get() takes a frame off the
\* queue or, the queue being empty, parse_frame() reads one from the socket;
\* with no frame on the socket a non-blocking call returns None and a
\* blocking one waits.
QGetMessage ==
    /\ poll.call.method = "get_message"
    /\ IF poll.iqueue # <<>>
       THEN poll' = MessageGot([poll EXCEPT !.iqueue = Tail(@)],
                               Head(poll.iqueue))
       ELSE IF poll.sock # <<>>
       THEN poll' = MessageGot([poll EXCEPT !.sock = Tail(@)],
                               Head(poll.sock))
       ELSE /\ poll.call.nb
            /\ poll' = [poll EXCEPT !.call = NoCall]
    /\ UNCHANGED <<clientvars, fvars, pool, fepoch>>

\* One round of the loop of get_reply: it returns the oldest frame of
\* rqueue or, the queue being empty, reads a frame from the socket and puts
\* it on iqueue if it is a MESSAGE, on rqueue if not.
QGetReply ==
    /\ poll.call.method = "get_reply"
    /\ IF poll.rqueue # <<>>
       THEN poll' = [poll EXCEPT !.replies = Append(@, Head(poll.rqueue)),
                                 !.rqueue = Tail(@),
                                 !.call = NoCall]
       ELSE IF poll.sock # <<>>
       THEN poll' = [poll EXCEPT
                       !.sock = Tail(@),
                       !.iqueue = IF Head(poll.sock).command = "MESSAGE"
                                  THEN IQueuePut(@, Head(poll.sock)) ELSE @,
                       !.rqueue = IF Head(poll.sock).command = "MESSAGE"
                                  THEN @ ELSE Append(@, Head(poll.sock))]
       ELSE /\ poll.call.nb
            /\ poll' = [poll EXCEPT !.call = NoCall]
    /\ UNCHANGED <<clientvars, fvars, pool, fepoch>>

PollNext == QArrive \/ QCall \/ QGetMessage \/ QGetReply

PollSpec == PollInit /\ [][PollNext]_vars

\* Where a frame that has arrived can be: on the socket, on a queue, or
\* returned to the application.
PollKept ==
    poll.sock \o poll.iqueue \o poll.rqueue \o poll.messages \o poll.replies

\* C38: get_reply returns no MESSAGE frame, get_message returns MESSAGE
\* frames only and in the order they arrived, and every frame that has
\* arrived is in one place and one only: on the socket, on a queue waiting
\* for the call that returns it, or returned.
C38_NoFrameLost ==
    /\ \A k \in DOMAIN poll.replies : poll.replies[k].command # "MESSAGE"
    /\ \A k \in DOMAIN poll.messages : poll.messages[k].command = "MESSAGE"
    /\ \A j, k \in DOMAIN poll.messages :
          j < k => poll.messages[j].id < poll.messages[k].id
    /\ \A k \in DOMAIN poll.iqueue : poll.iqueue[k].command = "MESSAGE"
    /\ \A k \in DOMAIN poll.rqueue : poll.rqueue[k].command # "MESSAGE"
    /\ \A n \in 1..poll.arrived :
          Cardinality({k \in DOMAIN PollKept : PollKept[k].id = n}) = 1

\* ------------------------------------- the buffer across a disconnect
\* The FrameBuffer of a duplex client fed from the connection, with one
\* packed frame on its way when the run begins.
ReconnectInit ==
    /\ role = "duplex"
    /\ threads = {FirstCaller}
    /\ ClientFresh
    /\ SideIdle
    /\ fframes = <<>>
    /\ fraw = <<>>
    /\ fstream \in AllPacked
    /\ fall = fstream
    /\ fbuffer = <<>>
    /\ fout = <<>>
    /\ fdrained = TRUE
    /\ ferr = None
    /\ fpacked = <<>>
    /\ fdecoded = [status |-> "none"]
    /\ fequal = None

\* What the server sends on a new connection.
Greetings == {Unframed(<<>>), Unframed(<<"x">>)}

\* disconnect(), then connect() and listener_forever() again, between two
\* rounds of the read loop: the bytes still on their way on the old
\* connection are gone with it, the server's first frame is on its way on
\* the new one, and self.buffer is the object it was, which neither method
\* assigns or empties.
FReconnect ==
    /\ fepoch = 0
    /\ fdrained
    /\ ferr = None
    /\ \E greeting \in Greetings :
          /\ fstream' = greeting
          /\ fall' = SubSeq(fall, 1, Len(fall) - Len(fstream)) \o greeting
    /\ fepoch' = fepoch + 1
    /\ UNCHANGED <<clientvars, pool, poll, fraw, fframes, fbuffer, fout,
                   fdrained, ferr, fpacked, fdecoded, fequal>>

ReconnectNext == FAppend \/ FExtract \/ FReconnect

ReconnectSpec == ReconnectInit /\ [][ReconnectNext]_vars

\* C37: the duplex disconnect() leaves the frame buffer empty, so that what
\* is read on the next connection is decoded on its own.
C37_BufferCleared ==
    [][fepoch' # fepoch => fbuffer' = <<>>]_vars

====
